---- MODULE Spec2Model ----
(***************************************************************************)
(* Planning engine of reddit-mastermind: capacity, topic selection,        *)
(* persona assignment, scheduling, quality gate, history persistence.      *)
(*                                                                         *)
(* Time is an integer number of minutes since a Monday 00:00 local time    *)
(* (no daylight-saving shifts).  A Date is such an integer; NoDate stands  *)
(* for an undefined Date.  Scores are kept in tenths (60 = 6.0).           *)
(***************************************************************************)
EXTENDS Integers, Sequences, FiniteSets, TLC

VARIABLES
    store,          \* localStorage item 'reddit-planner-history': <<>> or <<history>>
    now,            \* wall clock, new Date() / Date.now()
    providerKey,    \* the OpenAIProvider singleton holds an API key
    pc,             \* position of the generation call in flight
    run,            \* locals of the generateCalendar call in flight
    result,         \* CalendarGenerationResult of the last finished call
    entryStore,     \* value of store when the last generateCalendar call was entered
    nruns,          \* number of generation calls started so far
    request,        \* the last call made, when, the week start handed on, the weeks removed
    cap,            \* capacity harness: input, history, weekStart and the result
    unit            \* a function applied on its own: its arguments and its result

vars == <<store, now, providerKey, pc, run, result, entryStore, nruns, request, cap, unit>>

-----------------------------------------------------------------------------
(* Bounds of the model *)

MaxRuns == 2            \* generation calls per behaviour
MaxClock == 1           \* advances of the wall clock per behaviour

-----------------------------------------------------------------------------
(* Time *)

HourMin == 60
DayMin == 24 * 60
WeekMin == 7 * 24 * 60
NoDate == 0 - 1
\* localStorage.getItem returns null: the item is absent
NoStore == <<>>

Min2(a, b) == IF a <= b THEN a ELSE b
Max2(a, b) == IF a >= b THEN a ELSE b

\* Date.prototype.toDateString(): the calendar day of an instant
DayIndex(t) == t \div DayMin
\* Date.prototype.getDay(): 0 = Sunday .. 6 = Saturday (minute 0 is a Monday)
GetDay(t) == (DayIndex(t) + 1) % 7
\* midnight of the calendar day of t
Midnight(t) == DayIndex(t) * DayMin

getDayOfWeekName(t) ==
    <<"Sunday", "Monday", "Tuesday", "Wednesday", "Thursday", "Friday", "Saturday">>[GetDay(t) + 1]

getWeekStart(date) ==
    LET day == GetDay(date)
        diff == IF day = 0 THEN -6 ELSE 1 - day
    IN  Midnight(date) + diff * DayMin

getNextWeekStart(date) == getWeekStart(date) + 7 * DayMin

-----------------------------------------------------------------------------
(* Sequences *)

Range(s) == { s[i] : i \in DOMAIN s }

RECURSIVE SelectIdx(_, _, _)
\* indices i >= from of s with keep[i], in order
SelectIdx(keep, from, n) ==
    IF from > n THEN <<>>
    ELSE IF keep[from] THEN <<from>> \o SelectIdx(keep, from + 1, n)
    ELSE SelectIdx(keep, from + 1, n)

\* Array.prototype.slice(0, n), n may be negative or exceed the length
Slice0(s, n) ==
    LET m == IF n < 0 THEN Max2(0, Len(s) + n) ELSE Min2(n, Len(s))
    IN  SubSeq(s, 1, m)

SliceFirst(s, n) == IF Len(s) <= n THEN s ELSE SubSeq(s, 1, n)

\* Array.prototype.slice(-n)
SliceLast(s, n) == IF Len(s) <= n THEN s ELSE SubSeq(s, Len(s) - n + 1, Len(s))

RECURSIVE InsertDesc(_, _, _)
\* insert x after every element whose key is >= key(x): stable, descending
InsertDesc(sorted, x, key) ==
    IF sorted = <<>> THEN <<x>>
    ELSE IF key[Head(sorted)] >= key[x] THEN <<Head(sorted)>> \o InsertDesc(Tail(sorted), x, key)
    ELSE <<x>> \o sorted

RECURSIVE SortIdxDesc(_, _)
\* Array.prototype.sort((a, b) => key(b) - key(a)) on the index sequence idx (stable)
SortIdxDesc(idx, key) ==
    IF idx = <<>> THEN <<>>
    ELSE InsertDesc(SortIdxDesc(SubSeq(idx, 1, Len(idx) - 1), key), idx[Len(idx)], key)

RECURSIVE InsertAsc(_, _, _)
InsertAsc(sorted, x, key) ==
    IF sorted = <<>> THEN <<x>>
    ELSE IF key[Head(sorted)] <= key[x] THEN <<Head(sorted)>> \o InsertAsc(Tail(sorted), x, key)
    ELSE <<x>> \o sorted

RECURSIVE SortIdxAsc(_, _)
\* Array.prototype.sort((a, b) => key(a) - key(b)) on the index sequence idx (stable)
SortIdxAsc(idx, key) ==
    IF idx = <<>> THEN <<>>
    ELSE InsertAsc(SortIdxAsc(SubSeq(idx, 1, Len(idx) - 1), key), idx[Len(idx)], key)

RECURSIVE SumSeq(_)
SumSeq(s) == IF s = <<>> THEN 0 ELSE Head(s) + SumSeq(Tail(s))

\* Array.prototype.find by a key field: first index whose key matches, 0 if none
FindIdx(s, keyOf(_), k) ==
    IF \E i \in DOMAIN s : keyOf(s[i]) = k
    THEN CHOOSE i \in DOMAIN s : keyOf(s[i]) = k /\ \A j \in 1..(i - 1) : keyOf(s[j]) # k
    ELSE 0

\* Array.prototype.filter
Filter(s, keepOf(_)) ==
    LET keep == [i \in DOMAIN s |-> keepOf(s[i])]
        idx == SelectIdx(keep, 1, Len(s))
    IN  [j \in 1..Len(idx) |-> s[idx[j]]]

-----------------------------------------------------------------------------
(* History store (historyStorage.ts) *)

getEmptyHistory(t) ==
    [themeUsage |-> <<>>, personaActivity |-> <<>>, subredditPosts |-> <<>>,
     generatedWeeks |-> <<>>, lastUpdated |-> t]

\* Date.prototype.toISOString (JSON.stringify calls toJSON on a Date): the
\* ISO-8601 text of an instant, as its calendar day, hours and minutes (UTC)
toISOString(d) == [date |-> d \div DayMin, hours |-> (d % DayMin) \div HourMin, minutes |-> d % HourMin]

\* new Date(text) of an ISO-8601 text
DateOfISOString(text) == text.date * DayMin + text.hours * HourMin + text.minutes

\* an optional date that is undefined: JSON.stringify leaves the field out
Omitted == [date |-> 0 - 1, hours |-> 0, minutes |-> 0]

DateToJSON(d) == IF d = NoDate THEN Omitted ELSE toISOString(d)

\* the reviver on the text of a date: it matches the regular expression
DateFromJSON(text) == IF text = Omitted THEN NoDate ELSE DateOfISOString(text)

\* strings of the model that begin with four digits, "-", two digits, "-",
\* two digits and "T": the regular expression /^\d{4}-\d{2}-\d{2}T/
DateLikeStrings == {"2024-01-01T09", "2024-06-03T10:00 team sync deck"}

\* a Date object; it is equal to no string
DateObject == "[object Date]"

\* the reviver on a string value that is not the text of a date field
ReviveString(s) == IF s \in DateLikeStrings THEN DateObject ELSE s

SerializeComment(c) == [c EXCEPT !.timing = DateToJSON(@)]

SerializePost(p) ==
    [p EXCEPT !.day = DateToJSON(@), !.scheduledTime = DateToJSON(@),
              !.comments = [k \in DOMAIN @ |-> SerializeComment(@[k])]]

SerializeWeek(w) ==
    [w EXCEPT !.weekStart = DateToJSON(@), !.weekEnd = DateToJSON(@),
              !.generatedAt = DateToJSON(@),
              !.entries = [k \in DOMAIN @ |-> SerializePost(@[k])]]

\* JSON.stringify(history, replacer): every Date becomes its ISO-8601 text
serializeHistory(h) ==
    [themeUsage |-> [i \in DOMAIN h.themeUsage |->
                        [h.themeUsage[i] EXCEPT !.lastUsedDate = DateToJSON(@)]],
     personaActivity |-> [i \in DOMAIN h.personaActivity |->
                        [h.personaActivity[i] EXCEPT
                            !.lastPostDate = DateToJSON(@), !.lastCommentDate = DateToJSON(@),
                            !.postDates = [k \in DOMAIN @ |-> DateToJSON(@[k])]]],
     subredditPosts |-> [i \in DOMAIN h.subredditPosts |->
                        [h.subredditPosts[i] EXCEPT
                            !.lastPostDate = DateToJSON(@),
                            !.postDates = [k \in DOMAIN @ |-> DateToJSON(@[k])]]],
     generatedWeeks |-> [i \in DOMAIN h.generatedWeeks |-> SerializeWeek(h.generatedWeeks[i])],
     lastUpdated |-> DateToJSON(h.lastUpdated)]

DeserializeComment(c) ==
    [c EXCEPT !.timing = DateFromJSON(@), !.seedText = ReviveString(@),
              !.persona.id = ReviveString(@)]

DeserializePost(p) ==
    [p EXCEPT !.day = DateFromJSON(@), !.scheduledTime = DateFromJSON(@),
              !.dayOfWeek = ReviveString(@), !.postType = ReviveString(@),
              !.subreddit.name = ReviveString(@), !.persona.id = ReviveString(@),
              !.content.title = ReviveString(@),
              !.themeIds = [k \in DOMAIN @ |-> ReviveString(@[k])],
              !.comments = [k \in DOMAIN @ |-> DeserializeComment(@[k])]]

DeserializeWeek(w) ==
    [w EXCEPT !.weekStart = DateFromJSON(@), !.weekEnd = DateFromJSON(@),
              !.generatedAt = DateFromJSON(@),
              !.entries = [k \in DOMAIN @ |-> DeserializePost(@[k])]]

\* JSON.parse(json, reviver): every string that matches the regular
\* expression becomes new Date(value)
deserializeHistory(json) ==
    [themeUsage |-> [i \in DOMAIN json.themeUsage |->
                        [json.themeUsage[i] EXCEPT
                            !.themeId = ReviveString(@), !.lastUsedDate = DateFromJSON(@),
                            !.subredditsUsedIn = [k \in DOMAIN @ |-> ReviveString(@[k])]]],
     personaActivity |-> [i \in DOMAIN json.personaActivity |->
                        [json.personaActivity[i] EXCEPT
                            !.personaId = ReviveString(@),
                            !.lastPostDate = DateFromJSON(@), !.lastCommentDate = DateFromJSON(@),
                            !.postDates = [k \in DOMAIN @ |-> DateFromJSON(@[k])]]],
     subredditPosts |-> [i \in DOMAIN json.subredditPosts |->
                        [json.subredditPosts[i] EXCEPT
                            !.subredditName = ReviveString(@),
                            !.lastPostDate = DateFromJSON(@),
                            !.postDates = [k \in DOMAIN @ |-> DateFromJSON(@[k])]]],
     generatedWeeks |-> [i \in DOMAIN json.generatedWeeks |-> DeserializeWeek(json.generatedWeeks[i])],
     lastUpdated |-> DateFromJSON(json.lastUpdated)]

getHistory(st, t) == IF st = NoStore THEN getEmptyHistory(t) ELSE deserializeHistory(st[1])

\* the stored item after saveHistory(h) at time t
saveHistory(h, t) == <<serializeHistory([h EXCEPT !.lastUpdated = t])>>

ThemeIdOf(r) == r.themeId
PersonaIdOf(r) == r.personaId
SubredditNameOf(r) == r.subredditName

recordThemeUsage(h, themeId, subredditName, date) ==
    LET i == FindIdx(h.themeUsage, ThemeIdOf, themeId)
    IN  IF i # 0
        THEN LET e == h.themeUsage[i]
                 used == IF subredditName \in Range(e.subredditsUsedIn)
                         THEN e.subredditsUsedIn
                         ELSE Append(e.subredditsUsedIn, subredditName)
             IN  [h EXCEPT !.themeUsage[i] =
                     [e EXCEPT !.lastUsedDate = date,
                               !.usageCount = e.usageCount + 1,
                               !.subredditsUsedIn = used]]
        ELSE [h EXCEPT !.themeUsage = Append(h.themeUsage,
                 [themeId |-> themeId, lastUsedDate |-> date, usageCount |-> 1,
                  subredditsUsedIn |-> <<subredditName>>])]

recordPersonaActivity(h, personaId, postDate, isPost) ==
    LET i == FindIdx(h.personaActivity, PersonaIdOf, personaId)
    IN  IF i # 0
        THEN LET e == h.personaActivity[i]
             IN  IF isPost
                 THEN [h EXCEPT !.personaActivity[i] =
                          [e EXCEPT !.lastPostDate = postDate,
                                    !.postsThisWeek = e.postsThisWeek + 1,
                                    !.postDates = Append(e.postDates, postDate)]]
                 ELSE [h EXCEPT !.personaActivity[i] = [e EXCEPT !.lastCommentDate = postDate]]
        ELSE [h EXCEPT !.personaActivity = Append(h.personaActivity,
                 [personaId |-> personaId,
                  lastPostDate |-> IF isPost THEN postDate ELSE NoDate,
                  lastCommentDate |-> IF isPost THEN NoDate ELSE postDate,
                  postsThisWeek |-> IF isPost THEN 1 ELSE 0,
                  postDates |-> IF isPost THEN <<postDate>> ELSE <<>>])]

recordSubredditPost(h, subredditName, postDate) ==
    LET i == FindIdx(h.subredditPosts, SubredditNameOf, subredditName)
    IN  IF i # 0
        THEN LET e == h.subredditPosts[i]
             IN  [h EXCEPT !.subredditPosts[i] =
                     [e EXCEPT !.postsThisWeek = e.postsThisWeek + 1,
                               !.lastPostDate = postDate,
                               !.postDates = Append(e.postDates, postDate)]]
        ELSE [h EXCEPT !.subredditPosts = Append(h.subredditPosts,
                 [subredditName |-> subredditName, postsThisWeek |-> 1,
                  lastPostDate |-> postDate, postDates |-> <<postDate>>])]

RECURSIVE RecordThemes(_, _, _)
\* for (const post of calendar.entries) for (const themeId of post.themeIds) ...
RecordThemes(h, entries, k) ==
    IF k > Len(entries) THEN h
    ELSE LET post == entries[k]
         IN  RecordThemes(recordThemeUsage(h, post.themeIds[1], post.subreddit.name, post.day),
                          entries, k + 1)

RECURSIVE RecordComments(_, _, _)
RecordComments(h, comments, k) ==
    IF k > Len(comments) THEN h
    ELSE RecordComments(recordPersonaActivity(h, comments[k].persona.id, comments[k].timing, FALSE),
                        comments, k + 1)

RECURSIVE RecordPersonas(_, _, _)
RecordPersonas(h, entries, k) ==
    IF k > Len(entries) THEN h
    ELSE LET post == entries[k]
             h1 == recordPersonaActivity(h, post.persona.id, post.day, TRUE)
         IN  RecordPersonas(RecordComments(h1, post.comments, 1), entries, k + 1)

RECURSIVE RecordSubreddits(_, _, _)
RecordSubreddits(h, entries, k) ==
    IF k > Len(entries) THEN h
    ELSE RecordSubreddits(recordSubredditPost(h, entries[k].subreddit.name, entries[k].day),
                          entries, k + 1)

MaxStoredWeeks == 12

recordCalendarWeek(h, calendar) ==
    LET h1 == RecordThemes(h, calendar.entries, 1)
        h2 == RecordPersonas(h1, calendar.entries, 1)
        h3 == RecordSubreddits(h2, calendar.entries, 1)
        weeks == Append(h3.generatedWeeks, calendar)
    IN  [h3 EXCEPT !.generatedWeeks =
            IF Len(weeks) > MaxStoredWeeks THEN SliceLast(weeks, MaxStoredWeeks) ELSE weeks]

resetWeeklyCounters(h, t) ==
    LET weekAgo == t - 7 * DayMin
        Recent(d) == d > weekAgo
        Reset(r) == [r EXCEPT !.postsThisWeek = 0, !.postDates = Filter(r.postDates, Recent)]
    IN  [h EXCEPT !.personaActivity = [i \in DOMAIN h.personaActivity |-> Reset(h.personaActivity[i])],
                  !.subredditPosts = [i \in DOMAIN h.subredditPosts |-> Reset(h.subredditPosts[i])]]

-----------------------------------------------------------------------------
(* Guardrail constants (guardrails.ts, GUARDRAIL_RULES) *)

MIN_HOURS_BETWEEN_SAME_PERSONA_POSTS == 48
MIN_QUALITY_SCORE == 6
MIN_WEEKS_BEFORE_THEME_REUSE == 3
MAX_POSTS_PER_SUBREDDIT_PER_WEEK == 1
MIN_COMMENT_DELAY_MINUTES == 10
MAX_FIRST_COMMENT_DELAY_MINUTES == 90
MAX_COMMENTS_PER_POST == 3
MAX_PERSONAS_PER_POST == 2

-----------------------------------------------------------------------------
(* Capacity (capacity.ts) *)

\* constraintReason undefined
NoReason == [resource |-> "undefined", count |-> 0]

\* record.postDates.filter(d => d >= weekStart && d < weekEnd).length
PostsInWeek(postDates, weekStart) ==
    LET weekEnd == weekStart + 7 * DayMin
        InWeek(d) == d >= weekStart /\ d < weekEnd
    IN  Len(Filter(postDates, InWeek))

\* the days named by blockedDays: the day of every recorded post and the next day
BlockedDays(postDates) ==
    UNION { {DayIndex(postDates[k]), DayIndex(postDates[k] + DayMin)} : k \in DOMAIN postDates }

PersonaAvailabilityOf(persona, history, weekStart) ==
    LET i == FindIdx(history.personaActivity, PersonaIdOf, persona.id)
        postsThisWeek == IF i = 0 THEN 0
                         ELSE PostsInWeek(history.personaActivity[i].postDates, weekStart)
        blockedDays == IF i = 0 THEN {} ELSE BlockedDays(history.personaActivity[i].postDates)
        weekDays == [k \in 1..7 |-> weekStart + (k - 1) * DayMin]
        Free(day) == DayIndex(day) \notin blockedDays
        lastPostDate == IF i = 0 THEN NoDate ELSE history.personaActivity[i].lastPostDate
    IN  [persona |-> persona,
         remainingPosts |-> Max2(0, persona.maxPostsPerWeek - postsThisWeek),
         availableDays |-> Filter(weekDays, Free),
         blockedUntil |-> IF lastPostDate = NoDate THEN NoDate
                          ELSE lastPostDate + MIN_HOURS_BETWEEN_SAME_PERSONA_POSTS * HourMin]

getPersonaAvailability(personas, history, weekStart) ==
    [k \in DOMAIN personas |-> PersonaAvailabilityOf(personas[k], history, weekStart)]

allSubreddits(subreddits, history, weekStart) == subreddits

getAvailableSubreddits(subreddits, history, weekStart) ==
    LET Available(subreddit) ==
            LET i == FindIdx(history.subredditPosts, SubredditNameOf, subreddit.name)
            IN  IF i = 0 THEN TRUE
                ELSE PostsInWeek(history.subredditPosts[i].postDates, weekStart)
                        < subreddit.maxPostsPerWeek
    IN  Filter(subreddits, Available)

constraintReasonPersonasFirst(totalSlots, postsPerWeek, numSubreddits, maxPersonaSlots) ==
    IF totalSlots < postsPerWeek
    THEN [resource |-> "personas", count |-> maxPersonaSlots]
    ELSE NoReason

\* "Determine what's limiting us" of calculateWeeklyCapacity
constraintReasonOf(totalSlots, postsPerWeek, numSubreddits, maxPersonaSlots) ==
    IF totalSlots < postsPerWeek
    THEN IF numSubreddits = totalSlots
         THEN [resource |-> "subreddits", count |-> numSubreddits]
         ELSE IF maxPersonaSlots = totalSlots
              THEN [resource |-> "personas", count |-> maxPersonaSlots]
              ELSE NoReason
    ELSE NoReason

calculateWeeklyCapacity(input, history, weekStart) ==
    LET availableSubreddits == getAvailableSubreddits(input.subreddits, history, weekStart)
        availablePersonas == getPersonaAvailability(input.personas, history, weekStart)
        maxPersonaSlots ==
            SumSeq([k \in DOMAIN availablePersonas |-> availablePersonas[k].remainingPosts])
        totalSlots == Min2(input.postsPerWeek, Min2(Len(availableSubreddits), maxPersonaSlots))
    IN  [totalSlots |-> totalSlots,
         availableSubreddits |-> availableSubreddits,
         availablePersonas |-> availablePersonas,
         constraintReason |-> constraintReasonOf(totalSlots, input.postsPerWeek,
                                                 Len(availableSubreddits), maxPersonaSlots)]

-----------------------------------------------------------------------------
(* Scheduler (scheduler.ts) *)

\* DAY_WEIGHTS[getDay].weight, in tenths
DayWeight(dow) == <<3, 6, 10, 10, 10, 5, 3>>[dow + 1]

\* dayWeights of getOptimalPostingDays, in tenths
OptimalDayWeight(dow) == <<3, 6, 10, 10, 10, 5, 3>>[dow + 1]

getOptimalPostingDays(weekStart, numSlots) ==
    LET days == [k \in 1..7 |-> weekStart + (k - 1) * DayMin]
        weight == [k \in 1..7 |-> OptimalDayWeight(GetDay(days[k]))]
        byWeight == SortIdxDesc([k \in 1..7 |-> k], weight)
        top == Slice0(byWeight, numSlots)
        date == [k \in 1..7 |-> days[k]]
        selectedDays == SortIdxAsc(top, date)
    IN  [k \in 1..Len(selectedDays) |-> days[selectedDays[k]]]

selectFirstDays(weekStart, numPosts) ==
    [k \in 1..Min2(numPosts, 7) |-> weekStart + (k - 1) * DayMin]

selectPostingDays(weekStart, numPosts) ==
    LET days == [k \in 1..7 |-> weekStart + (k - 1) * DayMin]
        weight == [k \in 1..7 |-> DayWeight(GetDay(days[k]))]
        byWeight == SortIdxDesc([k \in 1..7 |-> k], weight)
        top == Slice0(byWeight, numPosts)
        date == [k \in 1..7 |-> days[k]]
        chrono == SortIdxAsc(top, date)
    IN  [k \in 1..Len(chrono) |-> days[chrono[k]]]

\* POSTING_WINDOWS: start and end hour of a window
WindowHours(w) ==
    CASE w = "morning" -> <<8, 10>>
      [] w = "midday" -> <<11, 13>>
      [] w = "afternoon" -> <<14, 16>>
      [] w = "evening" -> <<18, 20>>

\* DAY_WEIGHTS[getDay].windows
DayWindows(dow) ==
    CASE dow \in {0, 6} -> <<"afternoon", "evening">>
      [] dow \in {1, 5} -> <<"morning", "midday">>
      [] OTHER -> <<"morning", "midday", "afternoon">>

\* generatePostTime(day) for the random draws: window index, hour within the
\* window, minute, and the offset of -90..+89 minutes
generatePostTime(day, windowIdx, hourOff, minute, randomOffset) ==
    LET window == DayWindows(GetDay(day))[windowIdx]
        hour == WindowHours(window)[1] + hourOff
        base == Midnight(day) + hour * HourMin + minute
        postTime == base + randomOffset
    IN  IF DayIndex(postTime) # DayIndex(day) THEN base ELSE postTime

scheduleCommentsAtPostTime(postTime, comments) ==
    [k \in DOMAIN comments |-> [comments[k] EXCEPT !.timing = postTime]]

scheduleComments(postTime, comments) ==
    [k \in DOMAIN comments |-> [comments[k] EXCEPT !.timing = postTime + comments[k].delayMinutes]]

RECURSIVE SpreadFrom(_, _, _)
\* the loop of spreadPosts from index i on; rnd[i] is Math.floor(Math.random() * 12)
SpreadFrom(sorted, i, rnd) ==
    IF i > Len(sorted) THEN sorted
    ELSE LET prev == sorted[i - 1]
             curr == sorted[i]
         IN  IF curr.scheduledTime - prev.scheduledTime < 24 * HourMin
             THEN LET newTime == prev.scheduledTime + (24 + rnd[i]) * HourMin
                      moved == [curr EXCEPT !.scheduledTime = newTime,
                                            !.day = newTime,
                                            !.dayOfWeek = getDayOfWeekName(newTime),
                                            !.comments = scheduleComments(newTime, curr.comments)]
                  IN  SpreadFrom([sorted EXCEPT ![i] = moved], i + 1, rnd)
             ELSE SpreadFrom(sorted, i + 1, rnd)

spreadPostsSortOnly(posts, rnd) ==
    LET time == [k \in DOMAIN posts |-> posts[k].scheduledTime]
        order == SortIdxAsc([k \in DOMAIN posts |-> k], time)
    IN  [k \in DOMAIN posts |-> posts[order[k]]]

spreadPostsUnsorted(posts, rnd) == SpreadFrom(posts, 2, rnd)

spreadPosts(posts, rnd) ==
    LET time == [k \in DOMAIN posts |-> posts[k].scheduledTime]
        order == SortIdxAsc([k \in DOMAIN posts |-> k], time)
        sorted == [k \in DOMAIN posts |-> posts[order[k]]]
    IN  SpreadFrom(sorted, 2, rnd)

-----------------------------------------------------------------------------
(* Topic selection (topicSelector.ts) *)

\* getThemeSubredditCompatibility evaluated on the sample themes and
\* subreddits (sampleData.ts): the keyword tests of the function applied to
\* K1 'best ai presentation maker' (question) and
\* K4 'alternatives to PowerPoint' (comparison)
getThemeSubredditCompatibility(theme, subreddit) ==
    CASE theme.id = "K1" /\ subreddit.name = "r/PowerPoint" -> 8
      [] theme.id = "K4" /\ subreddit.name = "r/PowerPoint" -> 10
      [] theme.id = "K4" /\ subreddit.name = "r/Canva" -> 10
      [] OTHER -> 5

categoryToPostType(category) ==
    CASE category = "question" -> "question"
      [] category = "comparison" -> "comparison"
      [] category = "story" -> "story"
      [] category = "education" -> "discussion"
      [] category = "case-study" -> "story"
      [] OTHER -> "question"

\* Math.floor of a quotient whose numerator may be negative
FloorDiv(a, b) == IF a >= 0 THEN a \div b ELSE 0 - ((b - 1 - a) \div b)

\* themeRecency in tenths
ThemeRecency(theme, history, t) ==
    LET i == FindIdx(history.themeUsage, ThemeIdOf, theme.id)
    IN  IF i = 0 THEN 10
        ELSE LET weeksSinceUse == FloorDiv(t - history.themeUsage[i].lastUsedDate, WeekMin)
             IN  IF weeksSinceUse < MIN_WEEKS_BEFORE_THEME_REUSE THEN 3
                 ELSE Min2(10, weeksSinceUse)

\* all theme x subreddit combinations, themes outermost; relevanceScore in tenths
Combinations(themes, subreddits, history, t) ==
    LET ns == Len(subreddits)
    IN  [k \in 1..(Len(themes) * ns) |->
            LET theme == themes[((k - 1) \div ns) + 1]
                subreddit == subreddits[((k - 1) % ns) + 1]
            IN  [theme |-> theme, subreddit |-> subreddit,
                 postType |-> categoryToPostType(theme.category),
                 relevanceScore |-> getThemeSubredditCompatibility(theme, subreddit)
                                      * ThemeRecency(theme, history, t)]]

RECURSIVE PickAnySubreddit(_, _, _, _, _)
RECURSIVE PickUnique(_, _, _, _, _)

PickAnySubreddit(combos, k, selected, n, uniqueTheme) ==
    IF k > Len(combos) \/ Len(selected) >= n THEN selected
    ELSE LET combo == combos[k]
             usedThemes == { selected[j].theme.id : j \in DOMAIN selected }
         IN  IF uniqueTheme /\ combo.theme.id \in usedThemes
             THEN PickAnySubreddit(combos, k + 1, selected, n, uniqueTheme)
             ELSE PickAnySubreddit(combos, k + 1, Append(selected, combo), n, uniqueTheme)

\* the selection loops of selectTopics: a combination is skipped when its
\* subreddit is used and, in the first pass (uniqueTheme), when its theme is used
PickUnique(combos, k, selected, n, uniqueTheme) ==
    IF k > Len(combos) \/ Len(selected) >= n THEN selected
    ELSE LET combo == combos[k]
             usedSubreddits == { selected[j].subreddit.name : j \in DOMAIN selected }
             usedThemes == { selected[j].theme.id : j \in DOMAIN selected }
         IN  IF combo.subreddit.name \in usedSubreddits
                \/ (uniqueTheme /\ combo.theme.id \in usedThemes)
             THEN PickUnique(combos, k + 1, selected, n, uniqueTheme)
             ELSE PickUnique(combos, k + 1, Append(selected, combo), n, uniqueTheme)

selectTopicsAnyTheme(themes, subreddits, history, numTopicsNeeded, t) ==
    LET all == Combinations(themes, subreddits, history, t)
        score == [k \in DOMAIN all |-> all[k].relevanceScore]
        order == SortIdxDesc([k \in DOMAIN all |-> k], score)
        combinations == [k \in DOMAIN all |-> all[order[k]]]
    IN  PickUnique(combinations, 1, <<>>, numTopicsNeeded, FALSE)

selectTopics(themes, subreddits, history, numTopicsNeeded, t) ==
    LET all == Combinations(themes, subreddits, history, t)
        score == [k \in DOMAIN all |-> all[k].relevanceScore]
        order == SortIdxDesc([k \in DOMAIN all |-> k], score)
        combinations == [k \in DOMAIN all |-> all[order[k]]]
        first == PickUnique(combinations, 1, <<>>, numTopicsNeeded, TRUE)
    IN  IF Len(first) < numTopicsNeeded
        THEN PickUnique(combinations, 1, first, numTopicsNeeded, FALSE)
        ELSE first

-----------------------------------------------------------------------------
(* Persona assignment (personaAssigner.ts) *)

\* assignPersonas returns null
NoAssignment == [op |-> [id |-> "null", maxPostsPerWeek |-> 0], commenters |-> <<>>, comments |-> <<>>]
\* parentCommentId undefined
NoParent == 0 - 1

\* getPersonaTopicMatch evaluated on the sample personas and themes
getPersonaTopicMatch(persona, theme, postType) ==
    CASE theme.id = "K1" /\ persona.id = "jordan_consults" -> 7
      [] theme.id = "K1" /\ persona.id = "emily_econ" -> 8
      [] OTHER -> 5

eligibleForOPAgain(availablePersonas, day, alreadyAssignedOPs) ==
    LET Eligible(pa) ==
            /\ pa.remainingPosts > 0
            /\ \E k \in DOMAIN pa.availableDays : DayIndex(pa.availableDays[k]) = DayIndex(day)
            /\ ~(pa.blockedUntil # NoDate /\ pa.blockedUntil > day)
    IN  Filter(availablePersonas, Eligible)

\* eligibleForOP of assignPersonas
eligibleForOP(availablePersonas, day, alreadyAssignedOPs) ==
    LET Eligible(pa) ==
            /\ pa.remainingPosts > 0
            /\ \E k \in DOMAIN pa.availableDays : DayIndex(pa.availableDays[k]) = DayIndex(day)
            /\ pa.persona.id \notin Range(alreadyAssignedOPs)
            /\ ~(pa.blockedUntil # NoDate /\ pa.blockedUntil > day)
    IN  Filter(availablePersonas, Eligible)

BuildCommentsAtOnce(op, commenters, day, rnd) ==
    IF Len(commenters) = 0 THEN <<>>
    ELSE <<[id |-> 1, persona |-> commenters[1], delayMinutes |-> rnd.d1,
            seedText |-> "first", parentCommentId |-> NoParent, timing |-> day + rnd.d1]>>

\* the comment thread of assignPersonas; ids are positions in the list.
\* rnd: d1 in 0..59, d2 in 0..29, dOp in 0..19, isReply, agree, opReply
BuildComments(op, commenters, day, rnd) ==
    IF Len(commenters) = 0 THEN <<>>
    ELSE LET delay == 30 + rnd.d1
             c1 == [id |-> 1, persona |-> commenters[1], delayMinutes |-> delay,
                    seedText |-> "first", parentCommentId |-> NoParent,
                    timing |-> day + delay]
             delay2 == delay + 15 + rnd.d2
             c2 == [id |-> 2, persona |-> commenters[2], delayMinutes |-> delay2,
                    seedText |-> IF rnd.isReply /\ rnd.agree THEN "agreement" ELSE "additional",
                    parentCommentId |-> IF rnd.isReply THEN c1.id ELSE NoParent,
                    timing |-> day + delay2]
             two == IF Len(commenters) > 1 THEN <<c1, c2>> ELSE <<c1>>
             previousDelay == IF Len(commenters) > 1 THEN delay2 ELSE delay
             opDelay == previousDelay + 10 + rnd.dOp
             cOp == [id |-> Len(two) + 1, persona |-> op, delayMinutes |-> opDelay,
                     seedText |-> "op-ack", parentCommentId |-> two[1].id,
                     timing |-> day + opDelay]
         IN  IF rnd.opReply THEN Append(two, cOp) ELSE two

potentialCommentersWithOp(availablePersonas, op, theme, postType) ==
    LET cScore == [k \in DOMAIN availablePersonas |->
                      getPersonaTopicMatch(availablePersonas[k].persona, theme, postType)]
        cOrder == SortIdxDesc([k \in DOMAIN availablePersonas |-> k], cScore)
    IN  [k \in DOMAIN availablePersonas |-> availablePersonas[cOrder[k]]]

\* personas other than the OP, best topic match first
potentialCommenters(availablePersonas, op, theme, postType) ==
    LET NotOp(pa) == pa.persona.id # op.id
        others == Filter(availablePersonas, NotOp)
        cScore == [k \in DOMAIN others |->
                      getPersonaTopicMatch(others[k].persona, theme, postType)]
        cOrder == SortIdxDesc([k \in DOMAIN others |-> k], cScore)
    IN  [k \in DOMAIN others |-> others[cOrder[k]]]

assignPersonas(availablePersonas, day, theme, postType, alreadyAssignedOPs, rnd) ==
    LET eligible == eligibleForOP(availablePersonas, day, alreadyAssignedOPs)
    IN  IF Len(eligible) = 0 THEN NoAssignment
        ELSE LET opScore == [k \in DOMAIN eligible |->
                                getPersonaTopicMatch(eligible[k].persona, theme, postType)]
                 opOrder == SortIdxDesc([k \in DOMAIN eligible |-> k], opScore)
                 op == eligible[opOrder[1]].persona
                 potential == potentialCommenters(availablePersonas, op, theme, postType)
                 numCommenters == Min2(2, Len(potential))
                 commenters == [k \in 1..numCommenters |-> potential[k].persona]
             IN  [op |-> op, commenters |-> commenters,
                  comments |-> BuildComments(op, commenters, day, rnd)]

-----------------------------------------------------------------------------
(* Quality scoring (qualityScorer.ts).  A post's title and body are kept   *)
(* as the outcomes of the substring tests the scorers apply to them.       *)

Clamp10(x) == Min2(10, Max2(0, x))
B(b) == IF b THEN 1 ELSE 0

\* traits read from persona.info + role of the sample personas
PersonaTraits(id) ==
    CASE id = "riley_ops" -> {"tried"}
      [] id = "jordan_consults" -> {"consultant"}
      [] id = "emily_econ" -> {"student"}
      [] OTHER -> {}

\* which of the scorer's subreddit families the name belongs to
SubredditFamily(name) ==
    CASE name = "r/PowerPoint" -> {"powerpoint"}
      [] name = "r/Canva" -> {"canva"}
      [] name = "r/startups" -> {"startup"}
      [] OTHER -> {}

scoreOpenEndedQuestion(c) ==
    Clamp10(6 + 2 * B(c.openEnded) - c.closed + B(c.titleQ))

scoreNotSelfPromotional(c) ==
    Clamp10(10 - 3 * c.promo - c.buzz + 2 * B(c.vsCompany))

scoreNativeToSubreddit(c, subreddit) ==
    Clamp10(6 + 2 * Cardinality(SubredditFamily(subreddit.name) \cap c.nativeTerms)
              + B(c.casual) - 2 * c.formal)

scorePersonaCredibility(persona, c, postType) ==
    LET traits == PersonaTraits(persona.id)
    IN  Clamp10(6 + 2 * B("consultant" \in traits /\ c.kwDeckPres)
                  + 2 * B("sales" \in traits /\ c.kwPitchBiz)
                  + 2 * B("product manager" \in traits /\ c.kwTool)
                  + B("student" \in traits /\ c.kwPresSlides)
                  + B(postType = "story" /\ traits \cap {"tried", "experience"} # {}))

\* seed texts shorter than 10 or longer than 500 characters
SeedLengthOff(seedText) == seedText \in {"llm-short", "llm-long"}

scoreCommentNaturalness(comments) ==
    IF Len(comments) = 0 THEN 6
    ELSE LET first == comments[1]
             timing == IF first.delayMinutes >= 20 /\ first.delayMinutes <= 90 THEN 1 ELSE 0 - 1
             uniqueCommenters == { comments[k].persona.id : k \in DOMAIN comments }
             lengthOff == Cardinality({ k \in DOMAIN comments : SeedLengthOff(comments[k].seedText) })
             texts == { comments[k].seedText : k \in DOMAIN comments }
         IN  Clamp10(7 + timing + B(Cardinality(uniqueCommenters) >= 2) - lengthOff
                       + B(Cardinality(texts) = Len(comments)))

scoreEngagementPotential(c, postType) ==
    Clamp10(6 + c.engaging + B(postType = "story") + B(c.titleEndsQ))

\* QUALITY_WEIGHTS doubled: 1.5, 2.0, 1.5, 1.5, 1.5, 1.0
QualityWeights2 == <<3, 4, 3, 3, 3, 2>>

QualityFactors(post) ==
    <<scoreOpenEndedQuestion(post.content),
      scoreNotSelfPromotional(post.content),
      scoreNativeToSubreddit(post.content, post.subreddit),
      scorePersonaCredibility(post.persona, post.content, post.postType),
      scoreCommentNaturalness(post.comments),
      scoreEngagementPotential(post.content, post.postType)>>

\* Math.round(x * 10) / 10 of the quotient num / den, in tenths
RoundTenths(num, den) == (20 * num + den) \div (2 * den)

\* calculateQualityScore: totalScore in tenths
calculateQualityScore(post) ==
    LET factors == QualityFactors(post)
        weightedSum == SumSeq([k \in 1..6 |-> factors[k] * QualityWeights2[k]])
        totalWeight == SumSeq(QualityWeights2)
        totalScore == RoundTenths(weightedSum, totalWeight)
    IN  [totalScore |-> totalScore,
         passed |-> totalScore >= MIN_QUALITY_SCORE * 10,
         factors |-> factors]

NoLLMScore == 0 - 1
\* the number NaN
NaN == 0 - 2

\* getDefaultScore().score, in tenths
getDefaultScore == 70

\* clampScore, in tenths: Math.max(0, Math.min(10, Math.round(score * 10) / 10))
clampScore(score) == IF score = NaN THEN NaN ELSE Max2(0, Min2(100, score))

\* getLLMQualityScore: the score field of its result, for a provider that is
\* configured or not and a reply of the completion call that is a JSON
\* evaluation ("ok"), a rejection ("throws"), text that is not JSON
\* ("notJSON") or JSON without a score ("noScore")
getLLMQualityScore(configured, reply) ==
    IF ~configured THEN getDefaultScore
    ELSE IF reply.kind \in {"throws", "notJSON"} THEN getDefaultScore
    ELSE IF reply.kind = "noScore" THEN clampScore(NaN)
    ELSE clampScore(reply.score)

\* the acceptance test of calculateHybridQualityScore
passedHybrid(hybridScore) == hybridScore # NaN /\ hybridScore >= MIN_QUALITY_SCORE * 10

hybridAlwaysBlends(post, useLLM, llmWeight, llmScore) ==
    LET rule == calculateQualityScore(post)
        hybridScore == ((10 - llmWeight) * rule.totalScore + llmWeight * llmScore + 5) \div 10
    IN  [totalScore |-> hybridScore, passed |-> passedHybrid(hybridScore),
         factors |-> Append(rule.factors, llmScore \div 10),
         ruleBasedScore |-> rule.totalScore, hybridScore |-> hybridScore, llmScore |-> llmScore]

\* calculateHybridQualityScore; llmWeight and llmScore in tenths, llmScore
\* the score getLLMQualityScore returned
calculateHybridQualityScore(post, useLLM, llmWeight, llmScore) ==
    LET rule == calculateQualityScore(post)
    IN  IF ~useLLM
        THEN [totalScore |-> rule.totalScore, passed |-> rule.passed,
              factors |-> rule.factors, ruleBasedScore |-> rule.totalScore,
              hybridScore |-> rule.totalScore, llmScore |-> NoLLMScore]
        ELSE LET hybridScore == IF llmScore = NaN THEN NaN
                                ELSE ((10 - llmWeight) * rule.totalScore + llmWeight * llmScore + 5) \div 10
             IN  [totalScore |-> hybridScore, passed |-> passedHybrid(hybridScore),
                  factors |-> Append(rule.factors, IF llmScore = NaN THEN NaN ELSE llmScore \div 10),
                  ruleBasedScore |-> rule.totalScore,
                  hybridScore |-> hybridScore, llmScore |-> llmScore]

-----------------------------------------------------------------------------
(* Inputs of the model: sample personas, subreddits and themes *)

Persona(id, maxPosts) == [id |-> id, maxPostsPerWeek |-> maxPosts]
Subreddit(name, maxPosts) == [name |-> name, maxPostsPerWeek |-> maxPosts]
Theme(id, category) == [id |-> id, category |-> category]

\* a title and body with none of the tested substrings
PlainContent ==
    [title |-> "", openEnded |-> FALSE, closed |-> 0, titleQ |-> FALSE, titleEndsQ |-> FALSE,
     promo |-> 0, promoMention |-> FALSE, marketing |-> 0, buzz |-> 0, vsCompany |-> FALSE,
     nativeTerms |-> {}, casual |-> FALSE, formal |-> 0, engaging |-> 0,
     kwDeckPres |-> FALSE, kwPitchBiz |-> FALSE, kwTool |-> FALSE, kwPresSlides |-> FALSE]

\* generateTitle / generateBodyPreview for a theme and a template draw
TemplateContent(themeId, draw) ==
    CASE themeId = "K1" /\ draw = 1 ->
            [PlainContent EXCEPT !.title = "What's the best ai presentation maker?",
                !.openEnded = TRUE, !.titleQ = TRUE, !.titleEndsQ = TRUE,
                !.nativeTerms = {"powerpoint"}, !.kwDeckPres = TRUE, !.kwPresSlides = TRUE]
      [] themeId = "K1" ->
            [PlainContent EXCEPT !.title = "Looking for best ai presentation maker recommendations",
                !.nativeTerms = {"powerpoint"}, !.kwDeckPres = TRUE, !.kwPresSlides = TRUE]
      [] themeId = "K4" /\ draw = 1 ->
            [PlainContent EXCEPT !.title = "Alternatives to PowerPoint?",
                !.titleQ = TRUE, !.titleEndsQ = TRUE]
      [] OTHER ->
            [PlainContent EXCEPT !.title = "Comparing options: alternatives to PowerPoint"]

\* generatePostContent: the reply of the language model, or the content of
\* generatePostContentFallback when the model call fails
GeneratedContent(kind, themeId) ==
    CASE kind = "promotional" ->
            [PlainContent EXCEPT !.title = "Try Slideforge - the best tool!",
                !.promo = 1, !.promoMention = TRUE, !.marketing = 2, !.buzz = 1, !.kwTool = TRUE]
      [] kind \in {"comparison", "linked"} ->
            [PlainContent EXCEPT !.title = "Slideforge vs Canva for slides?",
                !.titleQ = TRUE, !.titleEndsQ = TRUE, !.vsCompany = TRUE,
                !.nativeTerms = {"powerpoint"}, !.engaging = 1, !.kwPresSlides = TRUE]
      [] kind = "fallback" /\ themeId = "K1" ->
            [TemplateContent(themeId, 1) EXCEPT !.title = "best ai presentation maker - what do you all use?"]
      [] OTHER ->
            [TemplateContent(themeId, 1) EXCEPT !.title = "alternatives to PowerPoint - what's everyone's take?"]

InputFull ==
    [personas |-> <<Persona("riley_ops", 2), Persona("jordan_consults", 2), Persona("emily_econ", 2)>>,
     subreddits |-> <<Subreddit("r/PowerPoint", 1), Subreddit("r/Canva", 1)>>,
     themes |-> <<Theme("K1", "question"), Theme("K4", "comparison")>>,
     postsPerWeek |-> 2]

InputOnePersona ==
    [personas |-> <<Persona("riley_ops", 2)>>,
     subreddits |-> <<Subreddit("r/PowerPoint", 1), Subreddit("r/Canva", 1)>>,
     themes |-> <<Theme("K1", "question")>>,
     postsPerWeek |-> 2]

\* two personas with one post a week each, subreddits with room for two
InputOnePostEach ==
    [personas |-> <<Persona("alex_sells", 1), Persona("priya_pm", 1)>>,
     subreddits |-> <<Subreddit("r/PowerPoint", 2), Subreddit("r/Canva", 2)>>,
     themes |-> <<Theme("K1", "question"), Theme("K4", "comparison")>>,
     postsPerWeek |-> 2]

InputNoSubreddits ==
    [personas |-> <<Persona("riley_ops", 2), Persona("jordan_consults", 2)>>,
     subreddits |-> <<>>,
     themes |-> <<Theme("K1", "question")>>,
     postsPerWeek |-> 1]

\* the request validation documented for POST /api/calendar
ValidInput(input) ==
    /\ Len(input.personas) >= 2
    /\ Len(input.subreddits) > 0
    /\ Len(input.themes) > 0
    /\ input.postsPerWeek >= 1
    /\ input.postsPerWeek <= 7

DEFAULT_LLM_WEIGHT == 3

\* DEFAULT_GENERATION_OPTIONS
OptionsTitlesOnly ==
    [mode |-> "titles-only", useLLMScoring |-> FALSE, llmWeight |-> DEFAULT_LLM_WEIGHT,
     openAIApiKey |-> FALSE]
OptionsFull ==
    [mode |-> "full-content", useLLMScoring |-> TRUE, llmWeight |-> DEFAULT_LLM_WEIGHT,
     openAIApiKey |-> TRUE]

\* the Mondays 00:00 of the first weeks after the initial clock
Week1 == WeekMin
Week2 == 2 * WeekMin
\* Date arguments that carry a time of day
Week1Mon23 == Week1 + 23 * HourMin
Week1Wed23 == Week1 + 2 * DayMin + 23 * HourMin

Call(op, input, options, weekStart) ==
    [op |-> op, input |-> input, options |-> options, weekStart |-> weekStart]

\* the calls made on the planner: generateCalendar(input, weekStart?, options),
\* generateNextWeekCalendar(input, options), regenerateCalendar(input, weekStart, options)
Calls ==
    { Call("generate", InputFull, OptionsTitlesOnly, NoDate),
      Call("generate", InputFull, OptionsTitlesOnly, Week1Mon23),
      Call("generate", InputFull, OptionsTitlesOnly, Week1Wed23),
      Call("generate", InputFull, OptionsFull, Week2),
      Call("generate", InputOnePersona, OptionsTitlesOnly, Week1),
      Call("generate", InputNoSubreddits, OptionsTitlesOnly, NoDate),
      Call("generate", InputOnePostEach, OptionsTitlesOnly, Week1),
      Call("generate", InputOnePostEach, OptionsTitlesOnly, Week1Wed23),
      Call("next", InputFull, OptionsTitlesOnly, NoDate),
      Call("next", InputNoSubreddits, OptionsTitlesOnly, NoDate),
      Call("regenerate", InputFull, OptionsTitlesOnly, Week1) }

\* the draws of Math.random() and the replies of the external services for
\* one slot: late picks the last window, hour and minute and the largest
\* offset and delays, otherwise the first and smallest
SlotDraws ==
    { [late |-> FALSE, isReply |-> TRUE, agree |-> TRUE, opReply |-> TRUE, template |-> 1,
       generated |-> "comparison", llmScore |-> 90],
      [late |-> TRUE, isReply |-> FALSE, agree |-> FALSE, opReply |-> FALSE, template |-> 2,
       generated |-> "promotional", llmScore |-> 0],
      [late |-> FALSE, isReply |-> TRUE, agree |-> TRUE, opReply |-> TRUE, template |-> 1,
       generated |-> "fallback", llmScore |-> 6],
      [late |-> FALSE, isReply |-> TRUE, agree |-> TRUE, opReply |-> TRUE, template |-> 1,
       generated |-> "linked", llmScore |-> 90] }

\* Math.floor(Math.random() * 12) of spreadPosts
SpreadDraws == {0, 11}

-----------------------------------------------------------------------------
(* Calendar validation (guardrails.ts) *)

Violation(rule, severity) == [rule |-> rule, severity |-> severity]

MAX_POSTS_PER_PERSONA_PER_DAY == 1

\* isSameDay(date1, date2)
isSameDay(date1, date2) == DayIndex(date1) = DayIndex(date2)

\* violations.filter(v => v.severity === 'error').length === 0
NoErrors(violations) == \A k \in DOMAIN violations : violations[k].severity # "error"

canPersonaPostIgnoringPlanned(persona, date, history, plannedPosts) ==
    LET r == FindIdx(history.personaActivity, PersonaIdOf, persona.id)
        dates == IF r = 0 THEN <<>> ELSE history.personaActivity[r].postDates
        tooClose == \E k \in DOMAIN dates :
                       date - dates[k] < MIN_HOURS_BETWEEN_SAME_PERSONA_POSTS * HourMin
                       /\ dates[k] - date < MIN_HOURS_BETWEEN_SAME_PERSONA_POSTS * HourMin
        violations == IF tooClose THEN <<Violation("MIN_48H_GAP", "error")>> ELSE <<>>
    IN  [passed |-> Len(violations) = 0, violations |-> violations]

canPersonaPostOnDate(persona, date, history, plannedPosts) ==
    LET r == FindIdx(history.personaActivity, PersonaIdOf, persona.id)
        ByPersona(p) == p.persona.id = persona.id
        planned == Filter(plannedPosts, ByPersona)
        weeklyPostCount == (IF r = 0 THEN 0 ELSE history.personaActivity[r].postsThisWeek)
                           + Len(planned)
        recentPostDates == (IF r = 0 THEN <<>> ELSE history.personaActivity[r].postDates)
                           \o [k \in DOMAIN planned |-> planned[k].day]
        \* Math.abs(date - postDate) / (1000 * 60 * 60) < 48
        tooClose == \E k \in DOMAIN recentPostDates :
                       date - recentPostDates[k] < MIN_HOURS_BETWEEN_SAME_PERSONA_POSTS * HourMin
                       /\ recentPostDates[k] - date < MIN_HOURS_BETWEEN_SAME_PERSONA_POSTS * HourMin
        postsOnSameDay == Cardinality({ k \in DOMAIN planned : isSameDay(planned[k].day, date) })
        violations ==
            (IF weeklyPostCount >= persona.maxPostsPerWeek
             THEN <<Violation("MAX_POSTS_PER_WEEK", "error")>> ELSE <<>>)
            \o (IF tooClose THEN <<Violation("MIN_48H_GAP", "error")>> ELSE <<>>)
            \o (IF postsOnSameDay >= MAX_POSTS_PER_PERSONA_PER_DAY
                THEN <<Violation("MAX_POSTS_PER_DAY", "error")>> ELSE <<>>)
    IN  [passed |-> Len(violations) = 0, violations |-> violations]

canUseThemeAsError(themeId, history, t) ==
    LET r == FindIdx(history.themeUsage, ThemeIdOf, themeId)
        violations == IF r # 0 /\ FloorDiv(t - history.themeUsage[r].lastUsedDate, WeekMin)
                                     < MIN_WEEKS_BEFORE_THEME_REUSE
                      THEN <<Violation("THEME_REUSE_TOO_SOON", "error")>> ELSE <<>>
    IN  [passed |-> NoErrors(violations), violations |-> violations]

\* canUseTheme(themeId, history) at Date.now() = t
canUseTheme(themeId, history, t) ==
    LET r == FindIdx(history.themeUsage, ThemeIdOf, themeId)
        weeksSinceUse == FloorDiv(t - history.themeUsage[r].lastUsedDate, WeekMin)
        violations == IF r # 0 /\ weeksSinceUse < MIN_WEEKS_BEFORE_THEME_REUSE
                      THEN <<Violation("THEME_REUSE_TOO_SOON", "warning")>> ELSE <<>>
    IN  [passed |-> NoErrors(violations), violations |-> violations]

validatePostContent(c) ==
    (IF c.promoMention THEN <<Violation("NO_PROMOTIONAL_MENTION", "error")>> ELSE <<>>)
    \o [k \in 1..c.marketing |-> Violation("MARKETING_LANGUAGE", "warning")]

-----------------------------------------------------------------------------
(* Post content as text: a string is a sequence of characters *)

UpperChars == <<"A", "B", "C", "D", "E", "F", "G", "H", "I", "J", "K", "L", "M", "N", "O", "P", "Q", "R", "S", "T", "U", "V", "W", "X", "Y", "Z">>
LowerChars == <<"a", "b", "c", "d", "e", "f", "g", "h", "i", "j", "k", "l", "m", "n", "o", "p", "q", "r", "s", "t", "u", "v", "w", "x", "y", "z">>

\* String.prototype.toLowerCase, on the characters of the texts below
toLowerCase(s) ==
    [k \in DOMAIN s |->
        IF \E u \in DOMAIN UpperChars : UpperChars[u] = s[k]
        THEN LowerChars[CHOOSE u \in DOMAIN UpperChars : UpperChars[u] = s[k]]
        ELSE s[k]]

\* String.prototype.includes
includes(s, pattern) ==
    \E i \in 0..(Len(s) - Len(pattern)) : SubSeq(s, i + 1, i + Len(pattern)) = pattern

\* the literals of promotionalPatterns
TryText == <<"t", "r", "y", " ">>
UseText == <<"u", "s", "e", " ">>
IsTheBestText == <<" ", "i", "s", " ", "t", "h", "e", " ", "b", "e", "s", "t">>
IsAmazingText == <<" ", "i", "s", " ", "a", "m", "a", "z", "i", "n", "g">>
CheckOutText == <<"c", "h", "e", "c", "k", " ", "o", "u", "t", " ">>

promotionalPatterns(companyLower) ==
    <<TryText \o companyLower, UseText \o companyLower, companyLower \o IsTheBestText,
      companyLower \o IsAmazingText, CheckOutText \o companyLower>>

marketingPhrases ==
    <<<<"c", "h", "e", "c", "k", " ", "i", "t", " ", "o", "u", "t">>,
      <<"y", "o", "u", " ", "s", "h", "o", "u", "l", "d", " ", "t", "r", "y">>,
      <<"a", "m", "a", "z", "i", "n", "g", " ", "t", "o", "o", "l">>,
      <<"b", "e", "s", "t", " ", "t", "o", "o", "l", " ", "e", "v", "e", "r">>,
      <<"g", "a", "m", "e", " ", "c", "h", "a", "n", "g", "e", "r">>,
      <<"r", "e", "v", "o", "l", "u", "t", "i", "o", "n", "a", "r", "y">>,
      <<"1", "0", "x", " ", "y", "o", "u", "r">>>>

validatePostContentCaseSensitive(title, body, companyName) ==
    LET patterns == promotionalPatterns(companyName)
        content == title \o <<" ">> \o body
        IsIncluded(phrase) == includes(content, phrase)
        found == Filter(marketingPhrases, IsIncluded)
        violations ==
            (IF \E p \in DOMAIN patterns : includes(title, patterns[p]) \/ includes(body, patterns[p])
             THEN <<Violation("NO_PROMOTIONAL_MENTION", "error")>> ELSE <<>>)
            \o [k \in DOMAIN found |-> Violation("MARKETING_LANGUAGE", "warning")]
    IN  [passed |-> NoErrors(violations), violations |-> violations]

\* validatePostContent(title, body, companyName) on texts
validatePostContentOn(title, body, companyName) ==
    LET titleLower == toLowerCase(title)
        bodyLower == toLowerCase(body)
        companyLower == toLowerCase(companyName)
        patterns == promotionalPatterns(companyLower)
        contentLower == toLowerCase(title \o <<" ">> \o body)
        IsIncluded(phrase) == includes(contentLower, phrase)
        found == Filter(marketingPhrases, IsIncluded)
        violations ==
            (IF \E p \in DOMAIN patterns :
                    includes(titleLower, patterns[p]) \/ includes(bodyLower, patterns[p])
             THEN <<Violation("NO_PROMOTIONAL_MENTION", "error")>> ELSE <<>>)
            \o [k \in DOMAIN found |-> Violation("MARKETING_LANGUAGE", "warning")]
    IN  [passed |-> NoErrors(violations), violations |-> violations]

validateCommentsLateIsError(post, comments) ==
    LET selfFirst == Len(comments) > 0 /\ comments[1].persona.id = post.persona.id
                     /\ comments[1].parentCommentId = NoParent
    IN  (IF selfFirst THEN <<Violation("NO_SELF_FIRST_COMMENT", "error")>> ELSE <<>>)
        \o (IF Len(comments) > 0 /\ comments[1].delayMinutes < MIN_COMMENT_DELAY_MINUTES
            THEN <<Violation("COMMENT_TOO_EARLY", "error")>> ELSE <<>>)
        \o (IF Len(comments) > 0 /\ comments[1].delayMinutes > MAX_FIRST_COMMENT_DELAY_MINUTES
            THEN <<Violation("FIRST_COMMENT_TOO_LATE", "error")>> ELSE <<>>)

validateComments(post, comments) ==
    LET selfFirst == Len(comments) > 0 /\ comments[1].persona.id = post.persona.id
                     /\ comments[1].parentCommentId = NoParent
        IsChain(c) == /\ c.parentCommentId # NoParent
                      /\ \E k \in DOMAIN comments :
                            /\ comments[k].id = c.parentCommentId
                            /\ \A j \in 1..(k - 1) : comments[j].id # c.parentCommentId
                            /\ comments[k].persona.id = c.persona.id
        chains == Filter(comments, IsChain)
        uniquePersonaIds == {post.persona.id} \cup { comments[k].persona.id : k \in DOMAIN comments }
    IN  (IF Len(comments) > MAX_COMMENTS_PER_POST
         THEN <<Violation("MAX_COMMENTS_PER_POST", "warning")>> ELSE <<>>)
        \o (IF selfFirst THEN <<Violation("NO_SELF_FIRST_COMMENT", "error")>> ELSE <<>>)
        \o [k \in DOMAIN chains |-> Violation("NO_CHAIN_REPLIES_SAME_PERSONA", "error")]
        \o (IF Len(comments) > 0 /\ comments[1].delayMinutes < MIN_COMMENT_DELAY_MINUTES
            THEN <<Violation("COMMENT_TOO_EARLY", "error")>> ELSE <<>>)
        \o (IF Len(comments) > 0 /\ comments[1].delayMinutes > MAX_FIRST_COMMENT_DELAY_MINUTES
            THEN <<Violation("FIRST_COMMENT_TOO_LATE", "warning")>> ELSE <<>>)
        \o (IF Cardinality(uniquePersonaIds) > MAX_PERSONAS_PER_POST + 1
            THEN <<Violation("TOO_MANY_PERSONAS", "warning")>> ELSE <<>>)

\* seed texts are tokens; the two below stand for a text with a link and a
\* text with one of the too-agreeable phrases
validateCommentContent(seedText, index) ==
    (IF index < 2 /\ seedText = "llm-link" THEN <<Violation("NO_LINKS_EARLY", "error")>> ELSE <<>>)
    \o (IF seedText = "llm-agree" THEN <<Violation("TOO_AGREEABLE", "warning")>> ELSE <<>>)

RECURSIVE ValidateCommentContents(_, _)
ValidateCommentContents(comments, k) ==
    IF k > Len(comments) THEN <<>>
    ELSE validateCommentContent(comments[k].seedText, k - 1) \o ValidateCommentContents(comments, k + 1)

RECURSIVE ValidateEntries(_, _)
ValidateEntries(entries, k) ==
    IF k > Len(entries) THEN <<>>
    ELSE LET post == entries[k]
         IN  validatePostContent(post.content) \o validateComments(post, post.comments)
             \o ValidateCommentContents(post.comments, 1) \o ValidateEntries(entries, k + 1)

validateCalendarWeek(calendar) ==
    LET entries == calendar.entries
        names == { entries[k].subreddit.name : k \in DOMAIN entries }
        Count(name) == Cardinality({ k \in DOMAIN entries : entries[k].subreddit.name = name })
        \* first position of every subreddit posted to more often than the maximum
        IsDup(k) == /\ Count(entries[k].subreddit.name) > MAX_POSTS_PER_SUBREDDIT_PER_WEEK
                    /\ \A j \in 1..(k - 1) : entries[j].subreddit.name # entries[k].subreddit.name
        dups == SelectIdx([k \in DOMAIN entries |-> IsDup(k)], 1, Len(entries))
        Low(post) == post.qualityScore < MIN_QUALITY_SCORE * 10
        lows == Filter(entries, Low)
        violations == ValidateEntries(entries, 1)
                      \o [k \in DOMAIN dups |-> Violation("DUPLICATE_SUBREDDIT", "error")]
                      \o [k \in DOMAIN lows |-> Violation("LOW_QUALITY_SCORE", "error")]
    IN  [passed |-> \A k \in DOMAIN violations : violations[k].severity # "error",
         violations |-> violations]

-----------------------------------------------------------------------------
(* Calendar generation (calendarGenerator.ts) *)

Warning(kind, n) == [kind |-> kind, n |-> n]

\* calendar undefined
NoCalendar ==
    [id |-> 0, weekNumber |-> 0, weekStart |-> NoDate, weekEnd |-> NoDate,
     entries |-> <<>>, generatedAt |-> NoDate]

\* the two failure returns of generateCalendar
FailureResult(error, warnings, postsRejected, mode) ==
    [success |-> FALSE, calendar |-> NoCalendar, error |-> error, warnings |-> warnings,
     guardrailViolations |-> <<>>,
     stats |-> [postsGenerated |-> 0, postsRejected |-> postsRejected, averageQualityScore |-> 0],
     generationMode |-> mode]

\* no call has returned yet
NoResult == FailureResult("pending", <<>>, 0, "none")

\* no call in flight
EmptyRun ==
    [input |-> InputNoSubreddits, options |-> OptionsTitlesOnly, llmAvailable |-> FALSE,
     targetWeekStart |-> NoDate, targetWeekEnd |-> NoDate,
     history |-> getEmptyHistory(NoDate), availablePersonas |-> <<>>,
     postingDays |-> <<>>, topics |-> <<>>, i |-> 0, posts |-> <<>>, assignedOPs |-> <<>>,
     postsRejected |-> 0, warnings |-> <<>>, candidate |-> <<>>]

\* ISO week number; minute 0 is the Monday of week 1
getWeekNumber(date) == getWeekStart(date) \div WeekMin + 1

\* Math.round of the quotient a / b
RoundDiv(a, b) == (2 * a + b) \div (2 * b)

storeMergedOnReturn(success, st, history, t) ==
    IF success
    THEN LET current == getHistory(st, t).generatedWeeks
             mine == { history.generatedWeeks[k].id : k \in DOMAIN history.generatedWeeks }
             others == SelectSeq(current, LAMBDA w : w.id \notin mine)
         IN  saveHistory([history EXCEPT !.generatedWeeks = others \o @], t)
    ELSE st

storeOnCleanReturn(success, st, history, t) ==
    IF success /\ validateCalendarWeek(history.generatedWeeks[Len(history.generatedWeeks)]).passed
    THEN saveHistory(history, t) ELSE st

savedOnEveryReturn(success, st, history, t) == saveHistory(history, t)

\* saveHistory is called on the successful return of generateCalendar only
storeOnReturn(success, st, history, t) == IF success THEN saveHistory(history, t) ELSE st

\* if (posts.length === 0) return { success: false, ... }
noPostsAccepted(posts) == Len(posts) = 0

RemoveWeekKeepAll(h, weekStart) == h

\* regenerateCalendar: history.generatedWeeks.filter(c => start.getTime() !== weekStart.getTime())
RemoveWeek(h, weekStart) ==
    LET Keep(c) == c.weekStart # weekStart
    IN  [h EXCEPT !.generatedWeeks = Filter(h.generatedWeeks, Keep)]

nextWeekStartFromClock(h, t) == getNextWeekStart(t)

\* generateNextWeekCalendar: the week start handed to generateCalendar
NextWeekStartOf(h, t) ==
    IF Len(h.generatedWeeks) > 0
    THEN h.generatedWeeks[Len(h.generatedWeeks)].weekEnd + DayMin
    ELSE getNextWeekStart(t)

\* generateCalendar up to its first await, on the stored item st
EnterGenerateCalendar(input, weekStart, options, st) ==
    LET llmAvailable == providerKey \/ options.openAIApiKey
        isFullContentMode == options.mode = "full-content"
        warnings0 == IF isFullContentMode /\ ~llmAvailable
                     THEN <<Warning("Full content mode requested but OpenAI API key not configured", 0)>>
                     ELSE <<>>
        targetWeekStart == IF weekStart = NoDate THEN getNextWeekStart(now) ELSE weekStart
        targetWeekEnd == targetWeekStart + 6 * DayMin
        history == resetWeeklyCounters(getHistory(st, now), now)
        capacity == calculateWeeklyCapacity(input, history, targetWeekStart)
        warnings1 == IF capacity.constraintReason # NoReason
                     THEN Append(warnings0, Warning(capacity.constraintReason.resource,
                                                    capacity.constraintReason.count))
                     ELSE warnings0
        numPosts == Min2(input.postsPerWeek, capacity.totalSlots)
        postingDays == selectPostingDays(targetWeekStart, numPosts)
        topics == selectTopics(input.themes, input.subreddits, history, numPosts, now)
        warnings2 == IF Len(topics) < numPosts
                     THEN Append(warnings1, Warning("Only n valid topics found", Len(topics)))
                     ELSE warnings1
    IN  /\ providerKey' = llmAvailable
        /\ entryStore' = st
        /\ nruns' = nruns + 1
        /\ IF capacity.totalSlots = 0
           THEN /\ store' = storeOnReturn(FALSE, st, history, now)
                /\ result' = FailureResult("No available slots for posting this week",
                                           warnings0, 0, options.mode)
                /\ pc' = "idle"
                /\ run' = EmptyRun
           ELSE /\ store' = st
                /\ result' = NoResult
                /\ pc' = "slots"
                /\ run' = [input |-> input, options |-> options, llmAvailable |-> llmAvailable,
                           targetWeekStart |-> targetWeekStart, targetWeekEnd |-> targetWeekEnd,
                           history |-> history, availablePersonas |-> capacity.availablePersonas,
                           postingDays |-> postingDays, topics |-> topics, i |-> 1,
                           posts |-> <<>>, assignedOPs |-> <<>>, postsRejected |-> 0,
                           warnings |-> warnings2, candidate |-> <<>>]
        /\ UNCHANGED <<now, cap, unit>>

\* a call of generateCalendar, generateNextWeekCalendar or regenerateCalendar
BeginCall(call) ==
    /\ pc = "idle"
    /\ nruns < MaxRuns
    /\ LET stored == getHistory(store, now)
           kept == RemoveWeek(stored, call.weekStart)
           st == IF call.op = "regenerate" THEN saveHistory(kept, now) ELSE store
           weekStart == IF call.op = "next" THEN NextWeekStartOf(stored, now) ELSE call.weekStart
       IN  /\ EnterGenerateCalendar(call.input, weekStart, call.options, st)
           /\ request' = [op |-> call.op, input |-> call.input, options |-> call.options,
                          weekStart |-> call.weekStart, target |-> weekStart, at |-> now,
                          removed |-> IF call.op = "regenerate"
                                      THEN Len(stored.generatedWeeks) - Len(kept.generatedWeeks)
                                      ELSE 0]

\* the draws of assignPersonas taken from a slot draw
CommentDraw(rnd) ==
    [d1 |-> IF rnd.late THEN 59 ELSE 0, d2 |-> IF rnd.late THEN 29 ELSE 0,
     dOp |-> IF rnd.late THEN 19 ELSE 0,
     isReply |-> rnd.isReply, agree |-> rnd.agree, opReply |-> rnd.opReply]

\* generatePostTime(day) under a slot draw
PostTimeDraw(day, rnd) ==
    IF rnd.late
    THEN generatePostTime(day, Len(DayWindows(GetDay(day))), 1, 59, 89)
    ELSE generatePostTime(day, 1, 0, 0, 0 - 90)

\* generateCommentThread yields min(numComments, commenterPersonas.length)
\* texts, from the language model or from generateCommentFallback; the mapping
\* keeps every other field of the original comment
GeneratedComments(scheduledTime, assignment, kind) ==
    LET comments == assignment.comments
        numGenerated == Min2(Len(comments), Len(assignment.commenters))
    IN  [k \in DOMAIN comments |->
            [comments[k] EXCEPT
                !.seedText = IF k > numGenerated THEN comments[k].seedText
                             ELSE IF kind = "fallback" THEN <<"fallback-1", "fallback-2">>[k]
                             ELSE IF kind = "linked" THEN <<"llm-link", "llm-2">>[k]
                             ELSE <<"llm-1", "llm-2">>[k],
                !.timing = scheduledTime + comments[k].delayMinutes]]

\* generatePostContent and generateComment catch every failure of the
\* completion call and of JSON.parse themselves and return their fallback:
\* the promise handed to generateCalendar is never rejected
generatePostContentThrows(kind) == FALSE

loopBreaksOnReject(r) ==
    r.i <= Min2(Len(r.topics), Len(r.postingDays)) /\ r.postsRejected = 0

\* for (let i = 0; i < Math.min(topics.length, postingDays.length); i++), with
\* r.i the number of the iteration to run next; a rejected slot continues
loopContinues(r) == r.i <= Min2(Len(r.topics), Len(r.postingDays))

slotAcceptedAlways(qualityResult) == TRUE

\* if (!qualityResult.passed) { ...; continue; }
slotAccepted(qualityResult) == qualityResult.passed

\* one iteration of the loop over topics and posting days
ProcessSlot(rnd) ==
    /\ pc = "slots"
    /\ loopContinues(run)
    /\ LET topic == run.topics[run.i]
           day == run.postingDays[run.i]
           assignment == assignPersonas(run.availablePersonas, day, topic.theme,
                                        topic.postType, run.assignedOPs, CommentDraw(rnd))
           isFullContent == run.options.mode = "full-content" /\ run.llmAvailable
           content == IF isFullContent
                      THEN GeneratedContent(rnd.generated, topic.theme.id)
                      ELSE TemplateContent(topic.theme.id, rnd.template)
           scheduledTime == PostTimeDraw(day, rnd)
           scheduledComments == IF isFullContent
                                THEN GeneratedComments(scheduledTime, assignment, rnd.generated)
                                ELSE scheduleComments(scheduledTime, assignment.comments)
           post == [id |-> 10 * nruns + run.i, day |-> day, dayOfWeek |-> getDayOfWeekName(day),
                    subreddit |-> topic.subreddit, persona |-> assignment.op,
                    content |-> content, postType |-> topic.postType,
                    themeIds |-> <<topic.theme.id>>, comments |-> scheduledComments,
                    qualityScore |-> 0, qualityFactors |-> <<>>,
                    scheduledTime |-> scheduledTime]
           \* catch (error) { warnings.push(`Post ${i + 1}: LLM generation failed, ...`) }
           warnings == IF isFullContent /\ generatePostContentThrows(rnd.generated)
                       THEN Append(run.warnings, Warning("LLM generation failed", run.i))
                       ELSE run.warnings
           useLLMScoring == run.options.useLLMScoring /\ run.llmAvailable
           qualityResult == calculateHybridQualityScore(post, useLLMScoring,
                                                        run.options.llmWeight, rnd.llmScore)
           scored == [post EXCEPT !.qualityScore = qualityResult.hybridScore,
                                  !.qualityFactors = qualityResult.factors]
       IN  IF assignment = NoAssignment
           THEN run' = [run EXCEPT !.warnings = Append(@, Warning("Could not assign persona", run.i)),
                                   !.postsRejected = @ + 1,
                                   !.candidate = <<>>,
                                   !.i = @ + 1]
           ELSE IF ~slotAccepted(qualityResult)
           THEN run' = [run EXCEPT !.assignedOPs = Append(@, assignment.op.id),
                                   !.warnings = Append(warnings, Warning("rejected (quality)", run.i)),
                                   !.postsRejected = @ + 1,
                                   !.candidate = <<scored>>,
                                   !.i = @ + 1]
           ELSE run' = [run EXCEPT !.assignedOPs = Append(@, assignment.op.id),
                                   !.warnings = warnings,
                                   !.posts = Append(@, scored),
                                   !.candidate = <<scored>>,
                                   !.i = @ + 1]
    /\ UNCHANGED <<store, now, providerKey, pc, result, entryStore, nruns, request, cap, unit>>

\* generateCalendar after the loop
Finish(sp) ==
    /\ pc = "slots"
    /\ ~loopContinues(run)
    /\ IF noPostsAccepted(run.posts)
       THEN /\ result' = FailureResult("No posts passed quality checks", run.warnings,
                                       run.postsRejected, run.options.mode)
            /\ store' = storeOnReturn(FALSE, store, run.history, now)
       ELSE LET spreadPostsList == spreadPosts(run.posts, [k \in DOMAIN run.posts |-> sp])
                calendar == [id |-> nruns, weekNumber |-> getWeekNumber(run.targetWeekStart),
                             weekStart |-> run.targetWeekStart, weekEnd |-> run.targetWeekEnd,
                             entries |-> spreadPostsList, generatedAt |-> now]
                validation == validateCalendarWeek(calendar)
                errors == { k \in DOMAIN validation.violations :
                               validation.violations[k].severity = "error" }
                warnings == IF ~validation.passed
                            THEN Append(run.warnings,
                                        Warning("guardrail violations", Cardinality(errors)))
                            ELSE run.warnings
                history == recordCalendarWeek(run.history, calendar)
                scores == [k \in DOMAIN run.posts |-> run.posts[k].qualityScore]
            IN  /\ store' = storeOnReturn(TRUE, store, history, now)
                /\ result' = [success |-> TRUE, calendar |-> calendar, error |-> "",
                              warnings |-> warnings,
                              guardrailViolations |-> validation.violations,
                              stats |-> [postsGenerated |-> Len(run.posts),
                                         postsRejected |-> run.postsRejected,
                                         averageQualityScore |->
                                             RoundDiv(SumSeq(scores), Len(run.posts))],
                              generationMode |->
                                  IF run.options.mode = "full-content" /\ run.llmAvailable
                                  THEN "full-content" ELSE "titles-only"]
    /\ pc' = "idle"
    /\ run' = EmptyRun
    /\ UNCHANGED <<now, providerKey, entryStore, nruns, request, cap, unit>>

\* the clock when the page is opened: Wednesday noon of the week before Week1
Now0 == 2 * DayMin + 12 * HourMin
\* time that passes between two calls
ClockStep == 2 * WeekMin

AdvanceClock ==
    /\ pc = "idle"
    /\ now < Now0 + MaxClock * ClockStep
    /\ now' = now + ClockStep
    /\ UNCHANGED <<store, providerKey, pc, run, result, entryStore, nruns, request, cap, unit>>

\* no call made yet
NoRequest == [op |-> "none", input |-> InputFull, options |-> OptionsTitlesOnly,
              weekStart |-> NoDate, removed |-> 0, target |-> NoDate, at |-> NoDate]

\* no function is applied on its own in this specification
NoUnit == [op |-> "none"]

\* the capacity computation is not part of this specification
NoCap == [input |-> InputNoSubreddits, history |-> getEmptyHistory(NoDate),
          weekStart |-> NoDate, done |-> FALSE,
          capacity |-> [totalSlots |-> 0, availableSubreddits |-> <<>>,
                        availablePersonas |-> <<>>, constraintReason |-> NoReason]]

Init ==
    /\ store = NoStore
    /\ now = Now0
    /\ providerKey = FALSE
    /\ pc = "idle"
    /\ run = EmptyRun
    /\ result = NoResult
    /\ entryStore = NoStore
    /\ nruns = 0
    /\ request = NoRequest
    /\ cap = NoCap
    /\ unit = NoUnit

Next ==
    \/ \E call \in Calls : BeginCall(call)
    \/ \E rnd \in SlotDraws : ProcessSlot(rnd)
    \/ \E sp \in SpreadDraws : Finish(sp)
    \/ AdvanceClock

Spec == Init /\ [][Next]_vars

-----------------------------------------------------------------------------
(* Capacity on its own: calculateWeeklyCapacity applied to a request, a     *)
(* history and a week start drawn from the sets below.                      *)

MaxCapPosts == 7        \* largest postsPerWeek the capacity is computed for

CapPersonas ==
    { <<Persona("riley_ops", 2)>>,
      <<Persona("riley_ops", 2), Persona("jordan_consults", 2)>>,
      <<Persona("riley_ops", 1), Persona("jordan_consults", 2)>> }

CapSubreddits ==
    { <<Subreddit("r/PowerPoint", 1)>>,
      <<Subreddit("r/PowerPoint", 1), Subreddit("r/Canva", 1)>>,
      <<Subreddit("r/PowerPoint", 1), Subreddit("r/Canva", 1), Subreddit("r/startups", 1)>>,
      <<Subreddit("r/PowerPoint", 2), Subreddit("r/Canva", 1)>> }

\* recorded post dates around the week that starts at Week1: the day before,
\* Tuesday, Thursday, and the instant the week ends
CapDates ==
    { <<>>, <<Week1 + DayMin>>, <<Week1 + DayMin, Week1 + 3 * DayMin>>,
      <<Week1 - DayMin>>, <<Week1 - DayMin, Week1 + 7 * DayMin>> }

LastOf(dates) == IF Len(dates) = 0 THEN NoDate ELSE dates[Len(dates)]

CapPersonaActivity(dates) ==
    [personaId |-> "riley_ops", lastPostDate |-> LastOf(dates), lastCommentDate |-> NoDate,
     postsThisWeek |-> 0, postDates |-> dates]

CapSubredditPosts(dates) ==
    [subredditName |-> "r/PowerPoint", postsThisWeek |-> 0, lastPostDate |-> LastOf(dates),
     postDates |-> dates]

\* histories as resetWeeklyCounters leaves them
CapHistories ==
    { [getEmptyHistory(Now0) EXCEPT !.personaActivity = pa, !.subredditPosts = sp] :
        pa \in {<<>>} \cup { <<CapPersonaActivity(d)>> : d \in CapDates },
        sp \in {<<>>} \cup { <<CapSubredditPosts(d)>> : d \in CapDates } }

CapInputs ==
    { [personas |-> ps, subreddits |-> ss, themes |-> <<Theme("K1", "question")>>,
       postsPerWeek |-> n] :
        ps \in CapPersonas, ss \in CapSubreddits, n \in {1, 2, 3, 5, MaxCapPosts} }

InitCap ==
    /\ store = NoStore
    /\ now = Now0
    /\ providerKey = FALSE
    /\ pc = "idle"
    /\ run = EmptyRun
    /\ result = NoResult
    /\ entryStore = NoStore
    /\ nruns = 0
    /\ request = NoRequest
    /\ cap \in { [NoCap EXCEPT !.input = input, !.history = history, !.weekStart = weekStart] :
                    input \in CapInputs, history \in CapHistories,
                    weekStart \in {Week1, Week1Mon23} }
    /\ unit = NoUnit

CapCompute ==
    /\ ~cap.done
    /\ cap' = [cap EXCEPT !.done = TRUE,
                          !.capacity = calculateWeeklyCapacity(cap.input, cap.history, cap.weekStart)]
    /\ UNCHANGED <<store, now, providerKey, pc, run, result, entryStore, nruns, request, unit>>

NextCap == CapCompute

SpecCap == InitCap /\ [][NextCap]_vars

-----------------------------------------------------------------------------
(* The stored weeks on their own: the end of successful generateCalendar    *)
(* calls (recordCalendarWeek, saveHistory) and the removal regenerateCalendar *)
(* makes first, on calendars of one post.                                   *)

MaxStoredRuns == 14     \* calendars recorded in one behaviour
MaxRegenerates == 2     \* regenerateCalendar calls in one behaviour

\* the planner at rest: nothing stored, no call made
PlannerAtRest ==
    /\ store = NoStore
    /\ now = Now0
    /\ providerKey = FALSE
    /\ pc = "idle"
    /\ run = EmptyRun
    /\ result = NoResult
    /\ entryStore = NoStore
    /\ nruns = 0
    /\ request = NoRequest
    /\ cap = NoCap

\* a calendar of one accepted post, as generateCalendar builds it
OnePostWeek(id, weekStart) ==
    [id |-> id, weekNumber |-> getWeekNumber(weekStart), weekStart |-> weekStart,
     weekEnd |-> weekStart + 6 * DayMin,
     entries |-> <<[id |-> 10 * id + 1, day |-> weekStart + DayMin + 9 * HourMin,
                    dayOfWeek |-> getDayOfWeekName(weekStart + DayMin),
                    subreddit |-> Subreddit("r/PowerPoint", 1),
                    persona |-> Persona("riley_ops", 2), content |-> PlainContent,
                    postType |-> "question", themeIds |-> <<"K1">>, comments |-> <<>>,
                    qualityScore |-> 70, qualityFactors |-> <<>>,
                    scheduledTime |-> weekStart + DayMin + 9 * HourMin]>>,
     generatedAt |-> now]

InitWeeks ==
    /\ PlannerAtRest
    /\ unit = [op |-> "weeks", log |-> <<>>, recorded |-> 0, regenerates |-> 0]

\* the ids of a list of weeks
WeekIds(weeks) == [k \in DOMAIN weeks |-> weeks[k].id]

\* the log without the weeks a regenerateCalendar(weekStart) call discards
LogWithout(weekStart) ==
    LET Keep(e) == e.weekStart # weekStart
    IN  Filter(unit.log, Keep)

\* the successful end of generateCalendar on the history read at its start
StoreWeek(st, weekStart, log, regenerates) ==
    LET history == resetWeeklyCounters(getHistory(st, now), now)
        calendar == OnePostWeek(unit.recorded + 1, weekStart)
    IN  /\ store' = saveHistory(recordCalendarWeek(history, calendar), now)
        /\ unit' = [unit EXCEPT !.log = Append(log, [id |-> calendar.id, weekStart |-> weekStart]),
                                !.recorded = @ + 1,
                                !.regenerates = regenerates]
        /\ UNCHANGED <<now, providerKey, pc, run, result, entryStore, nruns, request, cap>>

\* generateNextWeekCalendar that accepted a post
StoreNextWeek ==
    /\ unit.recorded < MaxStoredRuns
    /\ StoreWeek(store, NextWeekStartOf(getHistory(store, now), now), unit.log, unit.regenerates)

\* the week starts regenerateCalendar is called with: a stored week, or none
RegenerateTargets == { Week1 + k * WeekMin : k \in {0, 4, 13} }

\* regenerateCalendar(weekStart) that accepted a post
StoreRegenerated(weekStart) ==
    /\ unit.recorded < MaxStoredRuns
    /\ unit.regenerates < MaxRegenerates
    /\ StoreWeek(saveHistory(RemoveWeek(getHistory(store, now), weekStart), now), weekStart,
                 LogWithout(weekStart), unit.regenerates + 1)

\* regenerateCalendar(weekStart) whose generation failed: the removal is saved
RegenerateFailed(weekStart) ==
    /\ unit.regenerates < MaxRegenerates
    /\ store' = saveHistory(RemoveWeek(getHistory(store, now), weekStart), now)
    /\ unit' = [unit EXCEPT !.log = LogWithout(weekStart), !.regenerates = @ + 1]
    /\ UNCHANGED <<now, providerKey, pc, run, result, entryStore, nruns, request, cap>>

NextWeeks ==
    \/ StoreNextWeek
    \/ \E weekStart \in RegenerateTargets : StoreRegenerated(weekStart)
    \/ \E weekStart \in RegenerateTargets : RegenerateFailed(weekStart)

SpecWeeks == InitWeeks /\ [][NextWeeks]_vars

-----------------------------------------------------------------------------
(* spreadPosts on its own, applied once and then to its own result.         *)

MaxSpreadPosts == 3     \* longest post list handed to spreadPosts

\* scheduled times: 09:00 of the Tuesday of Week1 and 10, 24, 30, 48 and 72
\* hours later
SpreadTimes == { Week1 + DayMin + (9 + h) * HourMin : h \in {0, 10, 24, 30, 48, 72} }

\* a post as generateCalendar hands it to spreadPosts: scheduled at t on its
\* posting day, with one comment scheduled 30 minutes later
SpreadPost(id, t) ==
    [id |-> id, day |-> Midnight(t), dayOfWeek |-> getDayOfWeekName(Midnight(t)),
     scheduledTime |-> t,
     comments |-> <<[id |-> 1, persona |-> Persona("jordan_consults", 2), delayMinutes |-> 30,
                     seedText |-> "first", parentCommentId |-> NoParent, timing |-> t + 30]>>]

SpreadLists ==
    UNION { { [k \in 1..n |-> SpreadPost(k, times[k])] : times \in [1..n -> SpreadTimes] } :
            n \in 0..MaxSpreadPosts }

InitSpread ==
    /\ PlannerAtRest
    /\ unit \in { [op |-> "spread", posts |-> posts, applied |-> 0, once |-> <<>>, twice |-> <<>>] :
                    posts \in SpreadLists }

\* spreadPosts(posts), then spreadPosts of that result
ApplySpread(sp) ==
    /\ unit.op = "spread"
    /\ unit.applied < 2
    /\ LET arg == IF unit.applied = 0 THEN unit.posts ELSE unit.once
           out == spreadPosts(arg, [k \in DOMAIN arg |-> sp])
       IN  unit' = [unit EXCEPT !.applied = @ + 1,
                                !.once = IF unit.applied = 0 THEN out ELSE @,
                                !.twice = IF unit.applied = 1 THEN out ELSE @]
    /\ UNCHANGED <<store, now, providerKey, pc, run, result, entryStore, nruns, request, cap>>

NextSpread == \E sp \in SpreadDraws : ApplySpread(sp)

SpecSpread == InitSpread /\ [][NextSpread]_vars

-----------------------------------------------------------------------------
(* Quality scoring on its own: calculateQualityScore and                     *)
(* calculateHybridQualityScore called twice on one post.                     *)

MaxScoreCalls == 2      \* scoring calls made on one post

\* a comment 30 minutes after the post
ScoreComment ==
    [id |-> 1, persona |-> Persona("jordan_consults", 2), delayMinutes |-> 30,
     seedText |-> "first", parentCommentId |-> NoParent, timing |-> Week1 + DayMin + 30]

ScorePosts ==
    { [id |-> 1, day |-> Week1 + DayMin, dayOfWeek |-> "Tuesday", subreddit |-> subreddit,
       persona |-> persona, content |-> content, postType |-> postType,
       themeIds |-> <<"K1">>, comments |-> comments, qualityScore |-> 0,
       qualityFactors |-> <<>>, scheduledTime |-> Week1 + DayMin] :
        subreddit \in {Subreddit("r/PowerPoint", 1), Subreddit("r/Canva", 1)},
        persona \in {Persona("riley_ops", 2), Persona("emily_econ", 2)},
        content \in {PlainContent, TemplateContent("K1", 1), TemplateContent("K4", 2),
                     GeneratedContent("promotional", "K1"), GeneratedContent("comparison", "K1")},
        postType \in {"question", "story"},
        comments \in {<<>>, <<ScoreComment>>} }

\* what the completion call of the quality oracle does
OracleReplies ==
    { [kind |-> "ok", score |-> 90], [kind |-> "ok", score |-> 120], [kind |-> "ok", score |-> 20],
      [kind |-> "throws", score |-> 0], [kind |-> "notJSON", score |-> 0],
      [kind |-> "noScore", score |-> 0] }

InitScore ==
    /\ PlannerAtRest
    /\ unit \in { [op |-> "score", post |-> post, useLLM |-> useLLM, configured |-> configured,
                   replies |-> <<>>, rule |-> <<>>, hybrid |-> <<>>] :
                    post \in ScorePosts, useLLM \in BOOLEAN, configured \in BOOLEAN }

\* calculateQualityScore(post, company) and
\* calculateHybridQualityScore(post, company, useLLM, DEFAULT llmWeight)
ApplyScore(reply) ==
    /\ unit.op = "score"
    /\ Len(unit.replies) < MaxScoreCalls
    /\ unit' = [unit EXCEPT
                  !.replies = Append(@, reply),
                  !.rule = Append(@, calculateQualityScore(unit.post)),
                  !.hybrid = Append(@, calculateHybridQualityScore(
                                          unit.post, unit.useLLM, DEFAULT_LLM_WEIGHT,
                                          getLLMQualityScore(unit.configured, reply)))]
    /\ UNCHANGED <<store, now, providerKey, pc, run, result, entryStore, nruns, request, cap>>

NextScore == \E reply \in OracleReplies : ApplyScore(reply)

SpecScore == InitScore /\ [][NextScore]_vars

-----------------------------------------------------------------------------
(* The guardrail checks on their own: canPersonaPostOnDate and canUseTheme   *)
(* applied to arguments drawn from the sets below.                           *)

\* the clock of the checks: Wednesday noon ten weeks after Now0
GuardNow == Now0 + 10 * WeekMin
\* the date a post is checked for: 09:00 of the Thursday after
GuardDate == GuardNow + 21 * HourMin

\* recorded post dates around GuardDate, as offsets in minutes
GuardOffsets ==
    { <<>>, <<0 - 72 * HourMin>>, <<0 - 48 * HourMin>>, <<1 - 48 * HourMin>>,
      <<30 * HourMin>>, <<48 * HourMin>>, <<0 - 72 * HourMin, 48 * HourMin - 1>> }

GuardPersonaHistories ==
    {getEmptyHistory(GuardNow)}
    \cup { [getEmptyHistory(GuardNow) EXCEPT !.personaActivity =
              <<[personaId |-> "jordan_consults", lastPostDate |-> GuardDate,
                 lastCommentDate |-> NoDate, postsThisWeek |-> 1, postDates |-> <<GuardDate>>],
                [personaId |-> "riley_ops",
                 lastPostDate |-> IF Len(off) = 0 THEN NoDate ELSE GuardDate + off[Len(off)],
                 lastCommentDate |-> NoDate, postsThisWeek |-> n,
                 postDates |-> [k \in DOMAIN off |-> GuardDate + off[k]]]>>] :
            off \in GuardOffsets, n \in {0, 1} }

\* a planned post of a persona on a day
GuardPost(personaId, day) ==
    [id |-> 1, day |-> day, dayOfWeek |-> getDayOfWeekName(day),
     subreddit |-> Subreddit("r/PowerPoint", 1), persona |-> Persona(personaId, 2),
     content |-> PlainContent, postType |-> "question", themeIds |-> <<"K1">>,
     comments |-> <<>>, qualityScore |-> 70, qualityFactors |-> <<>>, scheduledTime |-> day]

GuardPlanned ==
    { <<>>, <<GuardPost("jordan_consults", GuardDate)>>,
      <<GuardPost("riley_ops", GuardDate + 48 * HourMin)>>,
      <<GuardPost("riley_ops", GuardDate - 9 * HourMin)>>,
      <<GuardPost("riley_ops", GuardDate + 20 * HourMin)>>,
      <<GuardPost("jordan_consults", GuardDate), GuardPost("riley_ops", GuardDate + 47 * HourMin)>> }

PersonaChecks ==
    { [op |-> "canPersonaPostOnDate", persona |-> Persona("riley_ops", quota), date |-> GuardDate,
       history |-> history, plannedPosts |-> planned, themeId |-> "K1", done |-> FALSE,
       check |-> [passed |-> TRUE, violations |-> <<>>]] :
        quota \in {1, 2}, history \in GuardPersonaHistories, planned \in GuardPlanned }

\* distances of a theme's last use from the clock, in minutes; a post of the
\* coming week is recorded with a date after the clock
GuardThemeAges ==
    { 0 - 5 * DayMin, 0, DayMin, 2 * WeekMin, 3 * WeekMin - 1, 3 * WeekMin, 3 * WeekMin + 1,
      4 * WeekMin, 9 * WeekMin }

GuardThemeHistories ==
    { [getEmptyHistory(GuardNow) EXCEPT !.themeUsage = usage] :
        usage \in {<<>>}
            \cup { <<[themeId |-> "K4", lastUsedDate |-> GuardNow - other, usageCount |-> 1,
                      subredditsUsedIn |-> <<"r/Canva">>]>> : other \in {0, 4 * WeekMin} }
            \cup { <<[themeId |-> "K4", lastUsedDate |-> GuardNow - other, usageCount |-> 1,
                      subredditsUsedIn |-> <<"r/Canva">>],
                     [themeId |-> "K1", lastUsedDate |-> GuardNow - age, usageCount |-> 1,
                      subredditsUsedIn |-> <<"r/PowerPoint">>]>> :
                    other \in {0, 4 * WeekMin}, age \in GuardThemeAges } }

ThemeChecks ==
    { [op |-> "canUseTheme", persona |-> Persona("riley_ops", 2), date |-> GuardDate,
       history |-> history, plannedPosts |-> <<>>, themeId |-> "K1", done |-> FALSE,
       check |-> [passed |-> TRUE, violations |-> <<>>]] :
        history \in GuardThemeHistories }

-----------------------------------------------------------------------------
(* Post texts checked by validatePostContent, built from pieces *)

\* company names typed into the form; the name may be left empty
SlideforgeName == <<"S", "l", "i", "d", "e", "f", "o", "r", "g", "e">>
DeckName == <<"D", "E", "C", "K">>

CompanyNames == {SlideforgeName, DeckName, <<>>}

PieceTry == <<"T", "r", "y", " ">>
PieceUse == <<"u", "s", "e", " ">>
PieceBecause == <<"b", "e", "c", "a", "u", "s", "e", " ">>
PieceCheckOut == <<"C", "H", "E", "C", "K", " ", "O", "U", "T", " ">>
PieceVs == <<" ", "v", "s", " ", "C", "a", "n", "v", "a", "?">>
PieceIsTheBest == <<" ", "i", "s", " ", "t", "h", "e", " ", "B", "E", "S", "T">>
PieceIsAmazing == <<" ", "i", "s", " ", "a", "m", "a", "z", "i", "n", "g">>
PieceCheckItOut == <<"C", "h", "e", "c", "k", " ", "i", "t", " ", "o", "u", "t">>
PieceGameChanger == <<"a", " ", "G", "a", "m", "e", " ", "C", "h", "a", "n", "g", "e", "r">>
PieceYouShouldTry == <<"y", "o", "u", " ", "s", "h", "o", "u", "l", "d", " ", "t", "r", "y">>
PieceSlides == <<"s", "l", "i", "d", "e", "s", " ", "f", "o", "r", " ", "m", "y", " ", "t", "e", "a", "m", " ">>

ContentPieces(companyName) ==
    {<<>>, PieceTry, PieceUse, PieceBecause, PieceCheckOut, PieceVs, PieceIsTheBest, PieceIsAmazing,
     PieceCheckItOut, PieceGameChanger, PieceYouShouldTry, PieceSlides,
     companyName, toLowerCase(companyName), SlideforgeName}

ContentTitles(companyName) ==
    { a \o b : a \in ContentPieces(companyName), b \in ContentPieces(companyName) }

ContentBodies(companyName) ==
    { a \o b : a \in {<<>>, PieceUse, PieceCheckOut, PieceGameChanger, companyName},
               b \in ContentPieces(companyName) }

ContentChecks(companyName) ==
    { [op |-> "validatePostContent", title |-> title, body |-> body,
       companyName |-> companyName, done |-> FALSE,
       check |-> [passed |-> TRUE, violations |-> <<>>]] :
        title \in ContentTitles(companyName), body \in ContentBodies(companyName) }

CheckContent ==
    /\ unit.op = "validatePostContent"
    /\ ~unit.done
    /\ unit' = [unit EXCEPT !.done = TRUE,
                            !.check = validatePostContentOn(unit.title, unit.body, unit.companyName)]
    /\ UNCHANGED <<store, now, providerKey, pc, run, result, entryStore, nruns, request, cap>>

\* comment threads handed to validateComments: a post of riley_ops with no
\* comment, one comment or two; the first comes 0 to 500 minutes after the
\* post, the second 15 minutes later, on its own or as a reply to the first;
\* the first may be listed as a reply to the second
CommentDelays == {0, 9, 10, 30, 90, 91, 500}

GuardComment(id, personaId, delayMinutes, parentCommentId) ==
    [id |-> id, persona |-> Persona(personaId, 2), delayMinutes |-> delayMinutes,
     seedText |-> "first", parentCommentId |-> parentCommentId,
     timing |-> GuardDate + 9 * HourMin + delayMinutes]

CommentThreads ==
    LET firsts == { GuardComment(1, p, d, NoParent) :
                      p \in {"riley_ops", "jordan_consults"}, d \in CommentDelays }
    IN  {<<>>} \cup { <<c>> : c \in firsts }
        \cup { <<[c EXCEPT !.parentCommentId = up],
                  GuardComment(2, p, c.delayMinutes + 15, parent)>> :
                  c \in firsts, p \in {"riley_ops", "jordan_consults", "emily_econ"},
                  parent \in {NoParent, 1}, up \in {NoParent, 2} }

CommentChecks ==
    { [op |-> "validateComments",
       post |-> [id |-> 1, persona |-> Persona("riley_ops", 2)],
       comments |-> comments, done |-> FALSE,
       check |-> [passed |-> TRUE, violations |-> <<>>]] : comments \in CommentThreads }

CheckComments ==
    /\ unit.op = "validateComments"
    /\ ~unit.done
    /\ LET violations == validateComments(unit.post, unit.comments)
       IN  unit' = [unit EXCEPT !.done = TRUE,
                                !.check = [passed |-> NoErrors(violations),
                                           violations |-> violations]]
    /\ UNCHANGED <<store, now, providerKey, pc, run, result, entryStore, nruns, request, cap>>

InitGuard ==
    /\ store = NoStore
    /\ now = GuardNow
    /\ providerKey = FALSE
    /\ pc = "idle"
    /\ run = EmptyRun
    /\ result = NoResult
    /\ entryStore = NoStore
    /\ nruns = 0
    /\ request = NoRequest
    /\ cap = NoCap
    /\ unit \in PersonaChecks \cup ThemeChecks \cup CommentChecks
                \cup UNION { ContentChecks(companyName) : companyName \in CompanyNames }

CheckPersona ==
    /\ unit.op = "canPersonaPostOnDate"
    /\ ~unit.done
    /\ unit' = [unit EXCEPT !.done = TRUE,
                            !.check = canPersonaPostOnDate(unit.persona, unit.date, unit.history,
                                                           unit.plannedPosts)]
    /\ UNCHANGED <<store, now, providerKey, pc, run, result, entryStore, nruns, request, cap>>

CheckTheme ==
    /\ unit.op = "canUseTheme"
    /\ ~unit.done
    /\ unit' = [unit EXCEPT !.done = TRUE,
                            !.check = canUseTheme(unit.themeId, unit.history, now)]
    /\ UNCHANGED <<store, now, providerKey, pc, run, result, entryStore, nruns, request, cap>>

NextGuard ==
    \/ CheckPersona
    \/ CheckTheme
    \/ CheckContent
    \/ CheckComments

SpecGuard == InitGuard /\ [][NextGuard]_vars

-----------------------------------------------------------------------------
(* Specification of selectTopics on theme and subreddit lists *)

MaxTopicThemes == 2
MaxTopicSubreddits == 3
MaxTopicsNeeded == 3

\* themes as parseThemes numbers them: the ids of a list are distinct
TopicThemeLists ==
    { themes \in UNION { [1..k -> {Theme("K1", "question"), Theme("K4", "comparison"),
                                   Theme("K9", "question")}] : k \in 0..MaxTopicThemes } :
        \A i, j \in DOMAIN themes : i # j => themes[i].id # themes[j].id }

\* subreddits as parseSubreddits reads them, one per line: a name may be
\* typed twice
TopicSubredditLists ==
    UNION { [1..k -> {Subreddit("r/PowerPoint", 1), Subreddit("r/Canva", 1), Subreddit("r/a", 1)}] :
              k \in 0..MaxTopicSubreddits }

TopicHistories ==
    { getEmptyHistory(Now0),
      [getEmptyHistory(Now0) EXCEPT !.themeUsage =
          <<[themeId |-> "K1", lastUsedDate |-> Now0 - WeekMin, usageCount |-> 1,
             subredditsUsedIn |-> <<"r/PowerPoint">>]>>],
      [getEmptyHistory(Now0) EXCEPT !.themeUsage =
          <<[themeId |-> "K4", lastUsedDate |-> Now0 - 5 * WeekMin, usageCount |-> 1,
             subredditsUsedIn |-> <<"r/Canva">>]>>] }

InitTopics ==
    /\ PlannerAtRest
    /\ unit \in { [op |-> "selectTopics", themes |-> themes, subreddits |-> subreddits,
                   history |-> history, numTopicsNeeded |-> n, done |-> FALSE, topics |-> <<>>] :
                    themes \in TopicThemeLists, subreddits \in TopicSubredditLists,
                    history \in TopicHistories, n \in 0..MaxTopicsNeeded }

ApplySelectTopics ==
    /\ unit.op = "selectTopics"
    /\ ~unit.done
    /\ unit' = [unit EXCEPT !.done = TRUE,
                            !.topics = selectTopics(unit.themes, unit.subreddits, unit.history,
                                                    unit.numTopicsNeeded, now)]
    /\ UNCHANGED <<store, now, providerKey, pc, run, result, entryStore, nruns, request, cap>>

NextTopics == ApplySelectTopics

SpecTopics == InitTopics /\ [][NextTopics]_vars

-----------------------------------------------------------------------------
(* Specification of the history store: saveHistory, getHistory, clearHistory *)

\* persona ids as parsePersonas reads them: the text before the first ":" of
\* a line, whatever it is
StorePersonaIds == {"riley_ops", "2024-01-01T09"}

\* titles: a template title, and a title returned by the language model
StoreTitles == {"Alternatives to PowerPoint?", "2024-06-03T10:00 team sync deck"}

\* minutes into the day at which a post is scheduled
StorePostTimes == {9 * HourMin, 17 * HourMin + 59}

\* a calendar of one accepted post with one comment
StoreWeekOf(id, weekStart, personaId, title, time) ==
    LET day == weekStart + DayMin + time
    IN  [id |-> id, weekNumber |-> getWeekNumber(weekStart), weekStart |-> weekStart,
         weekEnd |-> weekStart + 6 * DayMin,
         entries |-> <<[id |-> 10 * id + 1, day |-> weekStart + DayMin,
                        dayOfWeek |-> getDayOfWeekName(weekStart + DayMin),
                        subreddit |-> Subreddit("r/PowerPoint", 1),
                        persona |-> Persona(personaId, 2),
                        content |-> [PlainContent EXCEPT !.title = title],
                        postType |-> "question", themeIds |-> <<"K1">>,
                        comments |-> <<[id |-> 1, persona |-> Persona("jordan_consults", 2),
                                        delayMinutes |-> 30, seedText |-> "first",
                                        parentCommentId |-> NoParent, timing |-> day + 30]>>,
                        qualityScore |-> 70, qualityFactors |-> <<>>,
                        scheduledTime |-> day]>>,
         generatedAt |-> Now0]

\* histories as the planner builds them: nothing recorded, one week, two weeks
StoreHistories ==
    {getEmptyHistory(Now0)}
    \cup { recordCalendarWeek(getEmptyHistory(Now0), StoreWeekOf(1, Week1, id, title, time)) :
             id \in StorePersonaIds, title \in StoreTitles, time \in StorePostTimes }
    \cup { recordCalendarWeek(
               recordCalendarWeek(getEmptyHistory(Now0), StoreWeekOf(1, Week1, "riley_ops", title, time)),
               StoreWeekOf(2, Week1 + WeekMin, id, title, time)) :
             id \in StorePersonaIds, title \in StoreTitles, time \in StorePostTimes }

InitStore ==
    /\ store \in {NoStore} \cup { saveHistory(h, Now0 - DayMin) : h \in StoreHistories }
    /\ now = Now0
    /\ providerKey = FALSE
    /\ pc = "idle"
    /\ run = EmptyRun
    /\ result = NoResult
    /\ entryStore = NoStore
    /\ nruns = 0
    /\ request = NoRequest
    /\ cap = NoCap
    /\ unit \in { [op |-> "store", history |-> h, available |-> available, step |-> "start",
                   loaded |-> getEmptyHistory(Now0)] :
                    h \in StoreHistories, available \in BOOLEAN }

\* saveHistory(history); nothing is written when localStorage is not available
StoreSave ==
    /\ unit.op = "store"
    /\ unit.step = "start"
    /\ store' = IF unit.available THEN saveHistory(unit.history, now) ELSE store
    /\ unit' = [unit EXCEPT !.step = "saved"]
    /\ UNCHANGED <<now, providerKey, pc, run, result, entryStore, nruns, request, cap>>

\* clearHistory()
StoreClear ==
    /\ unit.op = "store"
    /\ unit.step = "saved"
    /\ store' = IF unit.available THEN NoStore ELSE store
    /\ unit' = [unit EXCEPT !.step = "cleared"]
    /\ UNCHANGED <<now, providerKey, pc, run, result, entryStore, nruns, request, cap>>

\* getHistory(); an empty history when localStorage is not available
StoreGet ==
    /\ unit.op = "store"
    /\ unit.step \in {"saved", "cleared"}
    /\ unit' = [unit EXCEPT !.step = IF unit.step = "saved" THEN "loaded" ELSE "loadedAfterClear",
                            !.loaded = IF unit.available THEN getHistory(store, now)
                                       ELSE getEmptyHistory(now)]
    /\ UNCHANGED <<store, now, providerKey, pc, run, result, entryStore, nruns, request, cap>>

\* the end of a run that began with the history just loaded:
\* recordCalendarWeek(history, calendar) and saveHistory(history)
StoreRecord(personaId) ==
    /\ unit.op = "store"
    /\ unit.step = "loaded"
    /\ unit.available
    /\ LET calendar == StoreWeekOf(3, Week1 + 2 * WeekMin, personaId,
                                   "Alternatives to PowerPoint?", 9 * HourMin)
           history == recordCalendarWeek(unit.loaded, calendar)
       IN  /\ store' = saveHistory(history, now)
           /\ unit' = [unit EXCEPT !.step = "recorded", !.loaded = history]
    /\ UNCHANGED <<now, providerKey, pc, run, result, entryStore, nruns, request, cap>>

NextStore ==
    \/ StoreSave
    \/ StoreClear
    \/ StoreGet
    \/ \E personaId \in StorePersonaIds : StoreRecord(personaId)

SpecStore == InitStore /\ [][NextStore]_vars

-----------------------------------------------------------------------------
(* Specification of selectPostingDays and getOptimalPostingDays *)

MaxDaysAsked == 8

\* week starts: every weekday of the week of Week1, at midnight and at 23:00
DayWeekStarts == { Week1 + d * DayMin + t : d \in 0..6, t \in {0, 23 * HourMin} }

InitDays ==
    /\ PlannerAtRest
    /\ unit \in { [op |-> "postingDays", weekStart |-> weekStart, n |-> n, done |-> FALSE,
                   selected |-> <<>>, optimal |-> <<>>] :
                    weekStart \in DayWeekStarts, n \in 0..MaxDaysAsked }

ApplyPostingDays ==
    /\ unit.op = "postingDays"
    /\ ~unit.done
    /\ unit' = [unit EXCEPT !.done = TRUE,
                            !.selected = selectPostingDays(unit.weekStart, unit.n),
                            !.optimal = getOptimalPostingDays(unit.weekStart, unit.n)]
    /\ UNCHANGED <<store, now, providerKey, pc, run, result, entryStore, nruns, request, cap>>

NextDays == ApplyPostingDays

SpecDays == InitDays /\ [][NextDays]_vars

-----------------------------------------------------------------------------
(* Specification of overlapping calls of generateCalendar.  The function is   *)
(* async: a call runs until it awaits the content generator or the scorer    *)
(* inside its loop, and another call may run meanwhile.  unit holds the call *)
(* that is waiting while the other one runs.                                 *)

OverlapCalls ==
    { Call("generate", InputFull, OptionsTitlesOnly, NoDate),
      Call("generate", InputFull, OptionsFull, Week2),
      Call("generate", InputOnePersona, OptionsTitlesOnly, Week1) }

InitOverlap ==
    /\ PlannerAtRest
    /\ unit = [op |-> "overlap", suspended |-> <<>>, overwritten |-> <<>>]

\* the running call as it is kept while it waits
Waiting == [run |-> run, request |-> request, entryStore |-> entryStore, nruns |-> nruns]

\* a call is made while no call runs: the first, one after a call that has
\* returned, or one during the wait of the first; once a call has resumed
\* after another call's save (overwritten is set) no further call is made
OverlapBegin(call) ==
    /\ unit.overwritten = <<>>
    /\ IF unit.suspended = <<>> THEN TRUE
       ELSE unit.suspended[1].nruns = nruns /\ result = NoResult
    /\ BeginCall(call)

\* the running call reaches an await of its loop and nothing else is waiting
Suspend ==
    /\ pc = "slots"
    /\ loopContinues(run)
    /\ unit.suspended = <<>>
    /\ unit' = [unit EXCEPT !.suspended = <<Waiting>>]
    /\ pc' = "idle"
    /\ run' = EmptyRun
    /\ UNCHANGED <<store, now, providerKey, result, entryStore, nruns, request, cap>>

\* the running call reaches an await and the waiting call continues
Swap ==
    /\ pc = "slots"
    /\ loopContinues(run)
    /\ unit.suspended # <<>>
    /\ unit' = [unit EXCEPT !.suspended = <<Waiting>>]
    /\ run' = unit.suspended[1].run
    /\ request' = unit.suspended[1].request
    /\ entryStore' = unit.suspended[1].entryStore
    /\ nruns' = unit.suspended[1].nruns
    /\ UNCHANGED <<store, now, providerKey, pc, result, cap>>

\* the waiting call continues after the other call has returned, or before
\* any other call was made; overwritten notes the calendar the other call
\* has returned and saved meanwhile
Resume ==
    /\ pc = "idle"
    /\ unit.suspended # <<>>
    /\ unit' = [unit EXCEPT !.suspended = <<>>,
                            !.overwritten = IF result.success THEN <<result.calendar>> ELSE @]
    /\ pc' = "slots"
    /\ run' = unit.suspended[1].run
    /\ request' = unit.suspended[1].request
    /\ entryStore' = unit.suspended[1].entryStore
    /\ nruns' = unit.suspended[1].nruns
    /\ UNCHANGED <<store, now, providerKey, result, cap>>

NextOverlap ==
    \/ \E call \in OverlapCalls : OverlapBegin(call)
    \/ \E rnd \in SlotDraws : ProcessSlot(rnd)
    \/ \E sp \in SpreadDraws : Finish(sp)
    \/ Suspend
    \/ Swap
    \/ Resume

SpecOverlap == InitOverlap /\ [][NextOverlap]_vars

-----------------------------------------------------------------------------
(* Properties *)

\* the history held by the store
Stored == getHistory(store, now)

\* a call has returned successfully and left the store as it is now
Succeeded == pc = "idle" /\ result.success

\* C1: after successful runs, no persona's recorded post dates contain two
\* entries less than 48 hours apart
C1_PostDates48hApart ==
    \A p \in DOMAIN Stored.personaActivity :
        LET dates == Stored.personaActivity[p].postDates
        IN  \A a, b \in DOMAIN dates :
                a < b => dates[b] - dates[a] >= MIN_HOURS_BETWEEN_SAME_PERSONA_POSTS * HourMin
                         \/ dates[a] - dates[b] >= MIN_HOURS_BETWEEN_SAME_PERSONA_POSTS * HourMin


\* C1 fails for week starts that carry a time of day: a post moved by
\* spreadPosts is recorded at a time before the day that was checked
C1_Input_TwoRunsWithTimeOfDay ==
    /\ Succeeded
    /\ request = [op |-> "generate", input |-> InputFull, options |-> OptionsTitlesOnly,
                  weekStart |-> Week1Wed23, removed |-> 0,
                  target |-> Week1Wed23, at |-> Now0]
    /\ nruns = 2

\* the entries of the calendar week a successful call returned
Returned == IF result.success THEN result.calendar.entries ELSE <<>>

\* number of entries of a week posted to the subreddit called name
PostsTo(entries, name) == Cardinality({ k \in DOMAIN entries : entries[k].subreddit.name = name })

CommentsWellFormed(post) ==
    LET comments == post.comments
    IN  /\ Len(comments) > 0 => comments[1].persona.id # post.persona.id
        /\ \A k \in DOMAIN comments :
              comments[k].parentCommentId # NoParent =>
                  \E j \in 1..(k - 1) :
                      /\ comments[j].id = comments[k].parentCommentId
                      /\ comments[j].persona.id # comments[k].persona.id

ScoredStep == pc = "slots" /\ pc' = "slots" /\ run'.candidate # <<>>

Failed == pc = "idle" /\ ~result.success /\ result.error # "pending"

\* C5: a generateCalendar run that fails, with zero computed slots or with
\* zero accepted posts, leaves the persisted store exactly as it was when the
\* run was entered
C5_FailedRunLeavesStore ==
    /\ [](Failed => store = entryStore)
    /\ [][(pc = "slots" /\ pc' = "idle" /\ Len(run.posts) = 0)
            => (~result'.success /\ store' = store)]_vars
    /\ [][(pc = "idle" /\ pc' = "idle" /\ nruns' = nruns + 1)
            => (~result'.success /\ store' = entryStore')]_vars

C5_Witness_NoPostsAcceptedStoreKept ==
    /\ Failed
    /\ result.error = "No posts passed quality checks"
    /\ result.stats.postsRejected = 2
    /\ store # NoStore
    /\ store = entryStore

\* C6: a request with fewer than 2 personas, no subreddits, no themes or
\* postsPerWeek outside 1..7 is rejected before the pipeline starts: the call
\* fails and the store is left as it was
C6_InvalidRequestRejected ==
    (request.op # "none" /\ ~ValidInput(request.input))
        => (pc = "idle" /\ ~result.success /\ store = entryStore)

\* C6 fails for a request with one persona: the call succeeds and is persisted
C6_Input_OnePersonaPersisted ==
    /\ Succeeded
    /\ request.input = InputOnePersona
    /\ store # entryStore

\* C7: with non-zero capacity every topic/day pair is processed, a rejected
\* slot leaves the posts accepted so far and only adds to the rejection count,
\* and the run succeeds iff at least one post was accepted
C7_RunSucceedsIffSomeSlotAccepted ==
    /\ [][(pc = "slots" /\ pc' = "idle")
            => /\ run.i = Min2(Len(run.topics), Len(run.postingDays)) + 1
               /\ result'.success <=> Len(run.posts) > 0
               /\ result'.success => result'.stats.postsGenerated = Len(run.posts)
               /\ result'.stats.postsRejected = run.postsRejected]_vars
    /\ [][(pc = "slots" /\ pc' = "slots")
            => /\ run'.i = run.i + 1
               /\ \/ run'.posts = run.posts /\ run'.postsRejected = run.postsRejected + 1
                  \/ /\ Len(run'.posts) = Len(run.posts) + 1
                     /\ SubSeq(run'.posts, 1, Len(run.posts)) = run.posts
                     /\ run'.postsRejected = run.postsRejected]_vars

C7_Witness_RejectedThenAccepted ==
    /\ Succeeded
    /\ result.stats.postsRejected = 1
    /\ result.stats.postsGenerated = 1
    /\ \E k \in DOMAIN result.warnings : result.warnings[k] = Warning("rejected (quality)", 1)

\* posts recorded for a persona or subreddit inside the week of the capacity call
CapWeekPosts(dates) ==
    Cardinality({ j \in DOMAIN dates :
                    dates[j] >= cap.weekStart /\ dates[j] < cap.weekStart + WeekMin })

CapSubredditUsed(name) ==
    LET recs == { r \in DOMAIN cap.history.subredditPosts :
                    cap.history.subredditPosts[r].subredditName = name }
    IN  IF recs = {} THEN 0
        ELSE CapWeekPosts(cap.history.subredditPosts[CHOOSE r \in recs : TRUE].postDates)

CapPersonaUsed(id) ==
    LET recs == { r \in DOMAIN cap.history.personaActivity :
                    cap.history.personaActivity[r].personaId = id }
    IN  IF recs = {} THEN 0
        ELSE CapWeekPosts(cap.history.personaActivity[CHOOSE r \in recs : TRUE].postDates)

\* subreddits of the request whose posts in the week are below their cap
CapOpenSubreddits ==
    Cardinality({ k \in DOMAIN cap.input.subreddits :
                    CapSubredditUsed(cap.input.subreddits[k].name)
                        < cap.input.subreddits[k].maxPostsPerWeek })

RECURSIVE CapQuotaUpTo(_)
\* remaining quota of the first n personas of the request
CapQuotaUpTo(n) ==
    IF n = 0 THEN 0
    ELSE CapQuotaUpTo(n - 1)
         + Max2(0, cap.input.personas[n].maxPostsPerWeek
                     - CapPersonaUsed(cap.input.personas[n].id))

CapQuota == CapQuotaUpTo(Len(cap.input.personas))

CapScenario ==
    /\ cap.input.personas = <<Persona("riley_ops", 2), Persona("jordan_consults", 2)>>
    /\ Len(cap.input.subreddits) = 3
    /\ cap.input.postsPerWeek = 5
    /\ cap.history.personaActivity = <<>>
    /\ cap.history.subredditPosts = <<>>

\* C9: when totalSlots is below postsPerWeek the constraint reason is set and
\* names a resource whose available count equals totalSlots; when totalSlots
\* equals postsPerWeek it is unset; 2 personas with quota 2, 3 subreddits with
\* quota 1 and 5 requested posts name the subreddits
C9_ConstraintReasonNamesBindingResource ==
    cap.done =>
        LET c == cap.capacity
        IN  /\ c.totalSlots < cap.input.postsPerWeek =>
                  /\ c.constraintReason # NoReason
                  /\ c.constraintReason.count = c.totalSlots
                  /\ \/ c.constraintReason.resource = "subreddits"
                        /\ CapOpenSubreddits = c.totalSlots
                     \/ c.constraintReason.resource = "personas"
                        /\ CapQuota = c.totalSlots
            /\ c.totalSlots = cap.input.postsPerWeek => c.constraintReason = NoReason
            /\ CapScenario => c.constraintReason = [resource |-> "subreddits", count |-> 3]

C9_Witness_ScenarioNamesSubreddits ==
    /\ cap.done
    /\ CapScenario
    /\ cap.capacity.totalSlots = 3

C11_NextWeekFollowsLastStoredWeek ==
    [][(nruns' = nruns + 1 /\ request'.op = "next")
        => LET weeks == Stored.generatedWeeks
               target == request'.target
           IN  /\ Len(weeks) > 0 => target = weeks[Len(weeks)].weekEnd + DayMin
               /\ Len(weeks) = 0 => /\ GetDay(target) = 1
                                    /\ target % DayMin = 0
                                    /\ target > now
                                    /\ target <= now + WeekMin
               /\ (request.op = "next" /\ result.success)
                    => /\ target = result.calendar.weekEnd + DayMin
                       /\ target = result.calendar.weekStart + WeekMin
                       /\ target > result.calendar.weekStart
               /\ (request.op = "next" /\ ~result.success
                                       /\ (Len(weeks) > 0 \/ request.at = now))
                    => target = request.target]_vars

\* two next-week calls in a row succeeded, the second for the week after the first
C11_Witness_TwoNextWeeksInARow ==
    /\ Succeeded
    /\ nruns = 2
    /\ request.op = "next"
    /\ request.target = Week2
    /\ Len(Stored.generatedWeeks) = 2
    /\ Stored.generatedWeeks[1].weekStart = Week1
    /\ Stored.generatedWeeks[2].weekStart = Week2

\* C12: the store never holds more than 12 weeks; the stored weeks are the
\* most recently recorded ones that no regenerate call discarded, in the
\* order they were recorded, and as long as no week was discarded they are
\* exactly the last min(12, n) of the n weeks recorded
C12_AtMostTwelveMostRecentWeeks ==
    unit.op = "weeks" =>
        LET weeks == WeekIds(Stored.generatedWeeks)
            log == WeekIds(unit.log)
        IN  /\ Len(weeks) <= 12
            /\ Len(weeks) <= Len(log)
            /\ \A k \in DOMAIN weeks : weeks[k] = log[Len(log) - Len(weeks) + k]
            /\ unit.regenerates = 0 => Len(weeks) = Min2(12, unit.recorded)

\* 14 weeks were recorded one after the other: the first two are gone
C12_Witness_OldestTwoDropped ==
    /\ unit.op = "weeks"
    /\ unit.regenerates = 0
    /\ unit.recorded = 14
    /\ WeekIds(Stored.generatedWeeks) = <<3, 4, 5, 6, 7, 8, 9, 10, 11, 12, 13, 14>>

\* every two posts of the list are at least 24 hours apart
SpreadCompliant(posts) ==
    \A i, j \in DOMAIN posts :
        i # j => (posts[i].scheduledTime - posts[j].scheduledTime >= 24 * HourMin
                  \/ posts[j].scheduledTime - posts[i].scheduledTime >= 24 * HourMin)

\* C13: spreadPosts of a list whose posts are pairwise at least 24 hours
\* apart returns the same posts, each with its scheduledTime, day, dayOfWeek
\* and comment timings unchanged, in the order of their scheduled times, and
\* a second application returns the result of the first
C13_SpreadPostsKeepsCompliantList ==
    (unit.op = "spread" /\ unit.applied >= 1 /\ SpreadCompliant(unit.posts)) =>
        /\ Len(unit.once) = Len(unit.posts)
        /\ \A k \in DOMAIN unit.posts : \E m \in DOMAIN unit.once : unit.once[m] = unit.posts[k]
        /\ \A m \in 1..(Len(unit.once) - 1) :
              unit.once[m].scheduledTime < unit.once[m + 1].scheduledTime
        /\ unit.applied = 2 => unit.twice = unit.once

\* three posts 24 hours and more apart, handed over out of order, applied twice
C13_Witness_CompliantUnsortedTwice ==
    /\ unit.op = "spread"
    /\ unit.applied = 2
    /\ Len(unit.posts) = 3
    /\ SpreadCompliant(unit.posts)
    /\ unit.posts[1].scheduledTime > unit.posts[2].scheduledTime
    /\ unit.once # unit.posts
    /\ unit.twice = unit.once

OracleFailed(k) ==
    \/ ~unit.configured
    \/ unit.replies[k].kind \in {"throws", "notJSON", "noScore"}

\* C15: in hybrid mode a failed oracle call leaves the final score equal to
\* the rule-based score, with no oracle factor added
C15_OracleFailureFallsBackToRuleScore ==
    (unit.op = "score" /\ unit.useLLM) =>
        \A k \in DOMAIN unit.hybrid :
            OracleFailed(k) =>
                /\ unit.hybrid[k].hybridScore = unit.hybrid[k].ruleBasedScore
                /\ unit.hybrid[k].totalScore = unit.rule[k].totalScore
                /\ unit.hybrid[k].factors = unit.rule[k].factors

\* C15 fails when the completion call throws: the default score 7 is blended in
C15_Input_OracleThrows ==
    /\ unit.op = "score"
    /\ unit.useLLM
    /\ unit.configured
    /\ Len(unit.hybrid) = 1
    /\ unit.replies[1].kind = "throws"
    /\ unit.hybrid[1].llmScore = getDefaultScore
    /\ unit.hybrid[1].hybridScore # unit.hybrid[1].ruleBasedScore

\* the post dates of the checked persona: recorded in history or planned
GuardPersonaDates ==
    UNION { Range(unit.history.personaActivity[r].postDates) :
              r \in { r2 \in DOMAIN unit.history.personaActivity :
                        unit.history.personaActivity[r2].personaId = unit.persona.id } }
    \cup { unit.plannedPosts[k].day :
             k \in { k2 \in DOMAIN unit.plannedPosts :
                       unit.plannedPosts[k2].persona.id = unit.persona.id } }

\* posts counted against the weekly quota of the checked persona
GuardWeeklyCount ==
    Cardinality({ k \in DOMAIN unit.plannedPosts :
                    unit.plannedPosts[k].persona.id = unit.persona.id })
    + SumSeq([r \in DOMAIN unit.history.personaActivity |->
                IF unit.history.personaActivity[r].personaId = unit.persona.id
                THEN unit.history.personaActivity[r].postsThisWeek ELSE 0])

\* the check returned a violation of the rule
GuardViolated(rule, severity) ==
    \E k \in DOMAIN unit.check.violations : unit.check.violations[k] = Violation(rule, severity)

\* C16: canPersonaPostOnDate returns an error MIN_48H_GAP violation, and
\* fails, exactly when some post date of the persona, recorded or planned,
\* is less than 48 hours before or after the date; with every such date at
\* least 48 hours away (or none at all) and the weekly quota not reached it
\* passes with no violations
C16_Min48hGapIffPostWithin48h ==
    (unit.op = "canPersonaPostOnDate" /\ unit.done) =>
        LET within == \E d \in GuardPersonaDates :
                         d > unit.date - 48 * HourMin /\ d < unit.date + 48 * HourMin
        IN  /\ GuardViolated("MIN_48H_GAP", "error") <=> within
            /\ within => ~unit.check.passed
            /\ (~within /\ GuardWeeklyCount < unit.persona.maxPostsPerWeek)
                  => (unit.check.passed /\ unit.check.violations = <<>>)

\* a post planned 47 hours after the date is the only one within 48 hours
C16_Witness_PlannedPostWithin48h ==
    /\ unit.op = "canPersonaPostOnDate"
    /\ unit.done
    /\ Len(unit.plannedPosts) = 2
    /\ unit.history.personaActivity # <<>>
    /\ unit.history.personaActivity[2].postDates = <<GuardDate - 72 * HourMin>>
    /\ GuardViolated("MIN_48H_GAP", "error")
    /\ ~unit.check.passed

\* the recorded last use of the checked theme, if any
GuardThemeLastUsed ==
    { unit.history.themeUsage[r].lastUsedDate :
        r \in { r2 \in DOMAIN unit.history.themeUsage :
                  unit.history.themeUsage[r2].themeId = unit.themeId } }

ContainsIgnoringCase(text, phrase) ==
    \E i \in 0..(Len(text) - Len(phrase)) :
        \A j \in 1..Len(phrase) :
            toLowerCase(<<text[i + j]>>) = toLowerCase(<<phrase[j]>>)

\* the text holds a direct promotional phrase naming the company
PromotesCompany(text, companyName) ==
    \/ \E verb \in {TryText, UseText, CheckOutText} :
          ContainsIgnoringCase(text, verb \o companyName)
    \/ \E praise \in {IsTheBestText, IsAmazingText} :
          ContainsIgnoringCase(text, companyName \o praise)

TopicsSelected(count) ==
    /\ \A i, j \in DOMAIN unit.topics :
          i # j => unit.topics[i].subreddit.name # unit.topics[j].subreddit.name
    /\ Len(unit.topics) <= unit.numTopicsNeeded
    /\ (unit.themes = <<>> \/ unit.subreddits = <<>>) => unit.topics = <<>>
    /\ unit.themes # <<>> => Len(unit.topics) = Min2(unit.numTopicsNeeded, count)

\* C19 (as stated): selectTopics returns pairs with pairwise distinct
\* subreddits, exactly min(numTopicsNeeded, number of subreddits) of them
\* when at least one theme is given, none when themes or subreddits are
\* empty, and never more than numTopicsNeeded
C19_CountIsMinOfNeededAndSubreddits ==
    (unit.op = "selectTopics" /\ unit.done) => TopicsSelected(Len(unit.subreddits))

\* C19 (amended): the same, with the number of distinct subreddit names in
\* place of the number of subreddits
C19_CountIsMinOfNeededAndDistinctNames ==
    (unit.op = "selectTopics" /\ unit.done) =>
        TopicsSelected(Cardinality({ unit.subreddits[k].name : k \in DOMAIN unit.subreddits }))

\* three topics asked of one theme and three subreddit lines, two of them
\* the same name: two topics
C19_Witness_SubredditTypedTwice ==
    /\ unit.op = "selectTopics"
    /\ unit.done
    /\ Len(unit.themes) = 1
    /\ unit.numTopicsNeeded = 3
    /\ unit.subreddits = <<Subreddit("r/PowerPoint", 1), Subreddit("r/PowerPoint", 1),
                           Subreddit("r/Canva", 1)>>
    /\ Len(unit.topics) = 2

\* the four collections of two histories are equal
SameCollections(a, b) ==
    /\ a.themeUsage = b.themeUsage
    /\ a.personaActivity = b.personaActivity
    /\ a.subredditPosts = b.subredditPosts
    /\ a.generatedWeeks = b.generatedWeeks

\* C20: with localStorage available, getHistory() after saveHistory(h)
\* returns the four collections of h, every date the same instant, and
\* getHistory() after clearHistory() returns an empty history
C20_HistoryStoreRoundTrips ==
    /\ (unit.op = "store" /\ unit.step = "loaded" /\ unit.available)
          => SameCollections(unit.loaded, unit.history)
    /\ (unit.op = "store" /\ unit.step = "loadedAfterClear")
          => SameCollections(unit.loaded, getEmptyHistory(now))

\* a history with a post of the persona "2024-01-01T09" was saved and loaded
C20_Input_PersonaIdLikeADate ==
    /\ unit.op = "store"
    /\ unit.step = "loaded"
    /\ unit.available
    /\ Len(unit.history.generatedWeeks) = 1
    /\ unit.history.personaActivity[1].personaId = "2024-01-01T09"
    /\ unit.history.generatedWeeks[1].entries[1].content.title = "Alternatives to PowerPoint?"
    /\ unit.loaded.personaActivity[1].personaId = DateObject

\* the weeks runs were made for: the stored weeks and the week of the last call
TargetWeeks ==
    { Stored.generatedWeeks[w].weekStart : w \in DOMAIN Stored.generatedWeeks }
    \cup (IF request.target = NoDate THEN {} ELSE {request.target})

\* the cap of a subreddit of the sample input
SubredditCap(name) ==
    LET i == CHOOSE k \in DOMAIN InputFull.subreddits : InputFull.subreddits[k].name = name
    IN  InputFull.subreddits[i].maxPostsPerWeek

\* C21: after any sequence of runs, for every subreddit and every target
\* week, the post dates recorded for the subreddit inside
\* [weekStart, weekStart + 7 days) are at most its weekly cap
C21_SubredditCapAcrossRuns ==
    pc = "idle" =>
        \A weekStart \in TargetWeeks :
            \A r \in DOMAIN Stored.subredditPosts :
                Cardinality({ k \in DOMAIN Stored.subredditPosts[r].postDates :
                                /\ Stored.subredditPosts[r].postDates[k] >= weekStart
                                /\ Stored.subredditPosts[r].postDates[k] < weekStart + 7 * DayMin })
                    <= SubredditCap(Stored.subredditPosts[r].subredditName)

\* two successful runs for the week of Week1, each with a post in r/PowerPoint
C21_Input_SameWeekTwice ==
    /\ pc = "idle"
    /\ Len(Stored.generatedWeeks) = 2
    /\ \A w \in 1..2 :
          /\ Stored.generatedWeeks[w].weekStart = Week1
          /\ \E e \in DOMAIN Stored.generatedWeeks[w].entries :
                Stored.generatedWeeks[w].entries[e].subreddit.name = "r/PowerPoint"
    /\ \E r \in DOMAIN Stored.subredditPosts :
          /\ Stored.subredditPosts[r].subredditName = "r/PowerPoint"
          /\ Len(Stored.subredditPosts[r].postDates) = 2

\* the week starts on a Monday and ends 6 days later
MondayWeek(week) ==
    /\ GetDay(week.weekStart) = 1
    /\ week.weekEnd = week.weekStart + 6 * DayMin

\* C22: every calendar week returned by a run or stored in history starts on
\* a Monday and ends 6 days after its start, whatever weekStart argument
\* the run was given
C22_WeekStartsOnMonday ==
    /\ result.success => MondayWeek(result.calendar)
    /\ \A w \in DOMAIN Stored.generatedWeeks : MondayWeek(Stored.generatedWeeks[w])

\* a first, successful run for a weekStart argument of Wednesday 23:00
C22_Input_WednesdayWeekStart ==
    /\ pc = "idle"
    /\ nruns = 1
    /\ request.op = "generate"
    /\ request.weekStart = Week1Wed23
    /\ result.success
    /\ result.calendar.weekStart = Week1Wed23
    /\ Len(Stored.generatedWeeks) = 1

\* the capacity the last call computed at its entry
EntryCapacity ==
    LET history == resetWeeklyCounters(getHistory(entryStore, request.at), request.at)
        targetWeekStart == IF request.target = NoDate THEN getNextWeekStart(request.at)
                           ELSE request.target
    IN  calculateWeeklyCapacity(request.input, history, targetWeekStart)

\* C23: when the capacity calculation yields zero slots, the failure result
\* carries its constraintReason, which names the binding resource, among
\* its warnings (the error text is the same for every zero-slot failure)
C23_ZeroSlotsDiagnosticNamesResource ==
    (pc = "idle" /\ request.op # "none" /\ EntryCapacity.totalSlots = 0) =>
        /\ ~result.success
        /\ EntryCapacity.constraintReason # NoReason
        /\ \E k \in DOMAIN result.warnings :
              result.warnings[k] = Warning(EntryCapacity.constraintReason.resource,
                                           EntryCapacity.constraintReason.count)

\* a first call with no subreddits: zero slots, limited by subreddits
C23_Input_NoSubreddits ==
    /\ pc = "idle"
    /\ nruns = 1
    /\ request.op = "generate"
    /\ request.input = InputNoSubreddits
    /\ EntryCapacity.totalSlots = 0
    /\ EntryCapacity.constraintReason = [resource |-> "subreddits", count |-> 0]
    /\ result.error = "No available slots for posting this week"
    /\ result.warnings = <<>>

\* the post carries the content generatePostContentFallback wrote for its
\* theme: the external generator failed for the slot
GeneratorFailedFor(post) == post.content = GeneratedContent("fallback", post.themeIds[1])

\* C24: when the external content generator fails for a slot of a
\* full-content run, the run goes on with the fallback title, body and
\* comment texts, and the result carries a warning for that slot
C24_GeneratorFailureWarned ==
    (Succeeded /\ result.generationMode = "full-content") =>
        \A e \in DOMAIN Returned :
            GeneratorFailedFor(Returned[e]) =>
                \E k \in DOMAIN result.warnings :
                    result.warnings[k] = Warning("LLM generation failed", Returned[e].id % 10)

\* a full-content run returned a post written by the fallback of the
\* generator, with fallback comment texts, and no warning at all
C24_Input_GeneratorFailedNoWarning ==
    /\ Succeeded
    /\ result.generationMode = "full-content"
    /\ \E e \in DOMAIN Returned :
          /\ GeneratorFailedFor(Returned[e])
          /\ Returned[e].comments # <<>>
          /\ Returned[e].comments[1].seedText = "fallback-1"
    /\ result.warnings = <<>>

\* the seven days of the week that starts at weekStart
WeekDaysOf(weekStart) == { weekStart + k * DayMin : k \in 0..6 }

\* weights of the days of the week, in tenths: Tuesday to Thursday 10,
\* Monday 6, Friday 5, Saturday and Sunday 3
WeightOfDay(t) ==
    CASE getDayOfWeekName(t) \in {"Tuesday", "Wednesday", "Thursday"} -> 10
      [] getDayOfWeekName(t) = "Monday" -> 6
      [] getDayOfWeekName(t) = "Friday" -> 5
      [] OTHER -> 3

\* C25: selectPostingDays and getOptimalPostingDays return the same
\* min(n, 7) days of the week starting at weekStart, in strictly increasing
\* order, none of them with a lower weight than a day left out; for n <= 3
\* and a Monday start they are among Tuesday, Wednesday and Thursday
C25_PostingDaysAreTopWeighted ==
    (unit.op = "postingDays" /\ unit.done) =>
        LET days == unit.selected
            chosen == Range(days)
        IN  /\ unit.optimal = days
            /\ Len(days) = Min2(unit.n, 7)
            /\ chosen \subseteq WeekDaysOf(unit.weekStart)
            /\ \A i, j \in DOMAIN days : i < j => days[i] < days[j]
            /\ \A d \in chosen : \A o \in WeekDaysOf(unit.weekStart) \ chosen :
                  WeightOfDay(d) >= WeightOfDay(o)
            /\ (unit.n <= 3 /\ getDayOfWeekName(unit.weekStart) = "Monday")
                  => \A d \in chosen : getDayOfWeekName(d) \in {"Tuesday", "Wednesday", "Thursday"}

\* four days of a week that starts on a Friday at 23:00: Monday (weight 6)
\* is taken, after the three days of weight 10
C25_Witness_FourDaysFromFriday ==
    /\ unit.op = "postingDays"
    /\ unit.done
    /\ unit.weekStart = Week1 + 4 * DayMin + 23 * HourMin
    /\ unit.n = 4
    /\ [k \in 1..4 |-> getDayOfWeekName(unit.selected[k])]
          = <<"Monday", "Tuesday", "Wednesday", "Thursday">>

\* the post of list posts that carries the id of post p
SpreadSource(posts, p) == posts[CHOOSE k \in DOMAIN posts : posts[k].id = p.id]

\* out is a spreading of the list posts: the same number of posts with the
\* same ids, in time order, adjacent posts 24 hours or more apart, and a post
\* whose time differs from the one it came with is later than that, 24 to 36
\* hours after the post before it
SpreadOutcome(posts, out) ==
    /\ Len(out) = Len(posts)
    /\ \A k \in DOMAIN posts : Cardinality({m \in DOMAIN out : out[m].id = posts[k].id}) = 1
    /\ \A m \in 1..(Len(out) - 1) :
          out[m + 1].scheduledTime - out[m].scheduledTime >= 24 * HourMin
    /\ \A m \in DOMAIN out :
          LET before == SpreadSource(posts, out[m]).scheduledTime
          IN  out[m].scheduledTime # before =>
                /\ out[m].scheduledTime > before
                /\ m > 1
                /\ out[m].scheduledTime - out[m - 1].scheduledTime >= 24 * HourMin
                /\ out[m].scheduledTime - out[m - 1].scheduledTime <= 36 * HourMin

\* C26: the result of spreadPosts is sorted by scheduledTime with adjacent
\* posts at least 24 hours apart; a moved post is moved forward, to 24 to 36
\* hours after its predecessor in the result; number and ids of the posts are
\* those of the input
C26_SpreadPostsSortedAndApart ==
    unit.op = "spread" =>
        /\ unit.applied >= 1 => SpreadOutcome(unit.posts, unit.once)
        /\ unit.applied = 2 => SpreadOutcome(unit.once, unit.twice)

\* three posts handed over out of order, 10 and 14 hours apart: the second in
\* time is moved behind the first, and the third, now too close to the moved
\* second, is moved behind that one
C26_Witness_MoveCascades ==
    /\ unit.op = "spread"
    /\ unit.applied >= 1
    /\ Len(unit.posts) = 3
    /\ unit.posts[1].scheduledTime > unit.posts[2].scheduledTime
    /\ unit.once[2].scheduledTime = unit.once[1].scheduledTime + 35 * HourMin
    /\ unit.once[3].scheduledTime = unit.once[2].scheduledTime + 35 * HourMin
    /\ SpreadSource(unit.posts, unit.once[3]).scheduledTime
          = unit.once[1].scheduledTime + 24 * HourMin

\* the comments of post are timed from its scheduledTime, and its dayOfWeek
\* names the weekday of its scheduledTime
TimedFromSchedule(post) ==
    /\ post.dayOfWeek = getDayOfWeekName(post.scheduledTime)
    /\ \A c \in DOMAIN post.comments :
          post.comments[c].timing = post.scheduledTime + post.comments[c].delayMinutes

\* spreadPosts has set the post to a time of its own choosing
ShiftedBySpreading(post) == post.day = post.scheduledTime

\* the comments of post after have the delay, author and parent of the
\* comments of post before
SameThread(before, after) ==
    /\ Len(after.comments) = Len(before.comments)
    /\ \A c \in DOMAIN before.comments :
          /\ after.comments[c].delayMinutes = before.comments[c].delayMinutes
          /\ after.comments[c].persona = before.comments[c].persona
          /\ after.comments[c].parentCommentId = before.comments[c].parentCommentId

ReturnsCalendarTimedFromSchedule ==
    (pc = "slots" /\ pc' = "idle" /\ result'.success) =>
        LET entries == result'.calendar.entries
        IN  /\ \A e \in DOMAIN entries : TimedFromSchedule(entries[e])
            /\ \A k \in DOMAIN run.posts :
                  \E e \in DOMAIN entries : /\ entries[e].id = run.posts[k].id
                                            /\ SameThread(run.posts[k], entries[e])

\* C27: in a returned calendar every comment's timing is its post's final
\* scheduledTime plus the comment's delayMinutes and every post's dayOfWeek
\* is the weekday of its final scheduledTime, shifted posts included;
\* spreading leaves each comment's delayMinutes, author and parent as they were
C27_CommentsFollowFinalSchedule == [][ReturnsCalendarTimedFromSchedule]_vars

\* a returned calendar with a post that spreading moved to another weekday
\* than the posting day it was planned for, with a comment on it
C27_Witness_ShiftedPostWithComment ==
    /\ Succeeded
    /\ \E e \in DOMAIN Returned :
          /\ ShiftedBySpreading(Returned[e])
          /\ Len(Returned[e].comments) >= 1
          /\ e > 1
          /\ Returned[e].scheduledTime - Returned[e - 1].scheduledTime >= 24 * HourMin
          /\ DayIndex(Returned[e].scheduledTime) > DayIndex(Returned[e - 1].scheduledTime) + 1

\* number of the dates that fall inside the seven days from weekStart on
DatesInWeek(dates, weekStart) ==
    Cardinality({ k \in DOMAIN dates : /\ dates[k] >= weekStart
                                       /\ dates[k] < weekStart + 7 * DayMin })

\* C28: in the history persisted by a successful run, the postsThisWeek
\* counter of every persona record and of every subreddit record is the
\* number of the record's post dates inside the run's target week, posts
\* recorded by earlier runs for that week included
C28_WeeklyCountersMatchPostDates ==
    Succeeded =>
        /\ \A p \in DOMAIN Stored.personaActivity :
              Stored.personaActivity[p].postsThisWeek
                 = DatesInWeek(Stored.personaActivity[p].postDates, result.calendar.weekStart)
        /\ \A r \in DOMAIN Stored.subredditPosts :
              Stored.subredditPosts[r].postsThisWeek
                 = DatesInWeek(Stored.subredditPosts[r].postDates, result.calendar.weekStart)

\* a second successful run for the week of Week1, the week of the first,
\* that posts once more to a subreddit the first run posted to
C28_Input_SecondRunSameWeek ==
    /\ Succeeded
    /\ nruns = 2
    /\ Len(Stored.generatedWeeks) = 2
    /\ \A w \in 1..2 : Stored.generatedWeeks[w].weekStart = Week1
    /\ \E r \in DOMAIN Stored.subredditPosts :
          /\ Stored.subredditPosts[r].postsThisWeek = 1
          /\ Len(Stored.subredditPosts[r].postDates) = 2
          /\ DatesInWeek(Stored.subredditPosts[r].postDates, Week1) = 2

\* the whole-week validation of the returned calendar found an error
WeekHasErrorViolation ==
    \E k \in DOMAIN result.guardrailViolations : result.guardrailViolations[k].severity = "error"

\* a run for which the language model wrote a link into a first comment: the
\* week is returned with the error-severity violation and is the last week
\* of the stored history
ReturnsAndRecordsAcceptedPosts ==
    (pc = "slots" /\ pc' = "idle" /\ Len(run.posts) >= 1) =>
        /\ result'.success
        /\ Len(result'.calendar.entries) = Len(run.posts)
        /\ Len(Stored'.generatedWeeks) >= 1
        /\ Stored'.generatedWeeks[Len(Stored'.generatedWeeks)] = result'.calendar
        /\ result'.guardrailViolations = validateCalendarWeek(result'.calendar).violations

\* C29: a run that accepted at least one post returns success and records
\* its week in the stored history, whatever the whole-week validation found,
\* and result.guardrailViolations holds every violation of that validation
C29_WeekErrorsDoNotBlockPersistence == [][ReturnsAndRecordsAcceptedPosts]_vars

C29_Witness_PersistedDespiteError ==
    /\ Succeeded
    /\ WeekHasErrorViolation
    /\ Len(Stored.generatedWeeks) >= 1
    /\ Stored.generatedWeeks[Len(Stored.generatedWeeks)] = result.calendar

\* validateComments has been applied to a thread with a first comment
FirstCommentChecked == unit.op = "validateComments" /\ unit.done /\ Len(unit.comments) >= 1

HasViolation(check, rule, severity) ==
    \E k \in DOMAIN check.violations : check.violations[k] = Violation(rule, severity)

\* C30 as stated: a first comment less than 10 or more than 90 minutes after
\* the post makes validateComments fail with an error-severity violation
C30_FirstCommentDelayBoundsAreErrors ==
    (FirstCommentChecked
     /\ (unit.comments[1].delayMinutes < 10 \/ unit.comments[1].delayMinutes > 90)) =>
        /\ ~unit.check.passed
        /\ ~NoErrors(unit.check.violations)

\* C30 amended: a first comment less than 10 minutes after the post is an
\* error (COMMENT_TOO_EARLY) and validateComments fails; one more than 90
\* minutes after the post is a warning (FIRST_COMMENT_TOO_LATE), never an
\* error, and validateComments passes unless the author wrote the first
\* comment or a persona replied to its own comment
C30_FirstCommentTooLateIsWarning ==
    FirstCommentChecked =>
        /\ unit.comments[1].delayMinutes < 10
              <=> HasViolation(unit.check, "COMMENT_TOO_EARLY", "error")
        /\ unit.comments[1].delayMinutes < 10 => ~unit.check.passed
        /\ unit.comments[1].delayMinutes > 90
              <=> HasViolation(unit.check, "FIRST_COMMENT_TOO_LATE", "warning")
        /\ ~HasViolation(unit.check, "FIRST_COMMENT_TOO_LATE", "error")
        /\ (/\ unit.comments[1].delayMinutes > 90
            /\ unit.comments[1].persona.id # unit.post.persona.id
            /\ \A c \in DOMAIN unit.comments :
                  unit.comments[c].parentCommentId = NoParent
                  \/ unit.comments[c].persona.id # unit.comments[1].persona.id)
              => unit.check.passed

\* a first comment by another persona 91 minutes after the post, on its own:
\* the check passes with the warning
C30_Witness_LateFirstCommentPasses ==
    /\ FirstCommentChecked
    /\ Len(unit.comments) = 1
    /\ unit.comments[1].delayMinutes = 91
    /\ unit.comments[1].persona.id = "jordan_consults"
    /\ unit.check.passed
    /\ unit.check.violations = <<Violation("FIRST_COMMENT_TOO_LATE", "warning")>>

\* validateComments has been applied to a thread
ThreadChecked == unit.op = "validateComments" /\ unit.done

\* the first comment of the thread is written by the author of the post
AuthorCommentsFirst ==
    Len(unit.comments) >= 1 /\ unit.comments[1].persona.id = unit.post.persona.id

\* some comment of the thread answers a comment of the thread by the same persona
PersonaAnswersItself ==
    \E c, k \in DOMAIN unit.comments :
        /\ unit.comments[k].id = unit.comments[c].parentCommentId
        /\ unit.comments[k].persona.id = unit.comments[c].persona.id

EntryAvailability(id) ==
    LET all == run.availablePersonas
    IN  all[CHOOSE k \in DOMAIN all : all[k].persona.id = id]

\* the persona may write a post on the day: quota left, the day among its
\* available days, and not blocked beyond the day
QualifiesAsAuthor(pa, day) ==
    /\ pa.remainingPosts > 0
    /\ \E k \in DOMAIN pa.availableDays : DayIndex(pa.availableDays[k]) = DayIndex(day)
    /\ (pa.blockedUntil = NoDate \/ pa.blockedUntil <= day)

\* the posts have pairwise different authors, each qualified for the posting
\* day of its post
AuthorsQualified(posts) ==
    /\ \A i, j \in DOMAIN posts : i # j => posts[i].persona.id # posts[j].persona.id
    /\ \A i \in DOMAIN posts : QualifiesAsAuthor(EntryAvailability(posts[i].persona.id), posts[i].day)

\* no persona of the input qualifies for the slot the run is about to process
NobodyQualifies ==
    \A k \in DOMAIN run.availablePersonas :
        LET pa == run.availablePersonas[k]
        IN  \/ ~QualifiesAsAuthor(pa, run.postingDays[run.i])
            \/ pa.persona.id \in Range(run.assignedOPs)

\* the run holds the availability computed from the history at its entry
\* and keeps it while it processes its slots
AvailabilityFromEntry ==
    /\ pc = "slots" => run.availablePersonas = EntryCapacity.availablePersonas
    /\ (pc = "slots" /\ pc' = "slots") => run'.availablePersonas = run.availablePersonas

AuthorsQualifiedOrSlotSkipped ==
    /\ AvailabilityFromEntry
    /\ pc' = "slots" => AuthorsQualified(run.posts)'
    /\ (pc = "slots" /\ pc' = "idle" /\ result'.success) =>
          \A i, j \in DOMAIN result'.calendar.entries :
              i # j => result'.calendar.entries[i].persona.id # result'.calendar.entries[j].persona.id
    /\ (pc = "slots" /\ pc' = "slots" /\ NobodyQualifies) =>
          /\ run'.posts = run.posts
          /\ run'.postsRejected = run.postsRejected + 1
          /\ run'.i = run.i + 1

\* C32: within a run no persona writes more than one post, every author had
\* quota left, the posting day among its available days and no block beyond
\* that day in the availability computed at the start of the run, and a slot
\* for which nobody qualifies is skipped and counted as rejected
C32_AuthorsEligibleOncePerRun == [][AuthorsQualifiedOrSlotSkipped]_vars

\* a run with a single persona and two slots: the first slot is written by
\* the persona, the second is skipped because nobody is left to write it
C32_Witness_SecondSlotSkipped ==
    /\ Succeeded
    /\ Len(request.input.personas) = 1
    /\ Len(Returned) = 1
    /\ result.stats.postsRejected = 1
    /\ \E k \in DOMAIN result.warnings : result.warnings[k] = Warning("Could not assign persona", 2)

\* the posts the run in progress has built and the posts of the last result
BuiltPosts == Range(run.posts) \cup Range(run.candidate) \cup Range(Returned)

\* the thread of the post starts with a top-level comment 30 to 90 minutes
\* after the post; every later comment comes later than the one before it: a
\* reply of the author 10 to 30 minutes later, a second commenter 15 to 45
ThreadPaced(post) ==
    LET comments == post.comments
    IN  Len(comments) >= 1 =>
          /\ comments[1].parentCommentId = NoParent
          /\ comments[1].delayMinutes >= 30
          /\ comments[1].delayMinutes <= 90
          /\ \A k \in 2..Len(comments) :
                LET gap == comments[k].delayMinutes - comments[k - 1].delayMinutes
                IN  /\ gap > 0
                    /\ IF comments[k].persona.id = post.persona.id
                       THEN gap >= 10 /\ gap <= 30
                       ELSE gap >= 15 /\ gap <= 45

\* validateComments raises neither of the two first-comment timing rules
NoFirstCommentTimingViolation(post) ==
    LET violations == validateComments(post, post.comments)
    IN  \A k \in DOMAIN violations :
            violations[k].rule \notin {"COMMENT_TOO_EARLY", "FIRST_COMMENT_TOO_LATE"}

SelectedThemes == { unit.topics[k].theme.id : k \in DOMAIN unit.topics }
TypedSubredditNames == { unit.subreddits[k].name : k \in DOMAIN unit.subreddits }

\* no subreddit is selected twice
SubredditsSelectedOnce ==
    \A i, j \in DOMAIN unit.topics :
        i # j => unit.topics[i].subreddit.name # unit.topics[j].subreddit.name

\* C34 as stated: the selection holds min(numTopicsNeeded, number of
\* subreddits, number of themes) different themes and no subreddit twice
C34_DistinctThemesIsMinOverSubreddits ==
    (unit.op = "selectTopics" /\ unit.done) =>
        /\ Cardinality(SelectedThemes)
              = Min2(unit.numTopicsNeeded, Min2(Len(unit.subreddits), Len(unit.themes)))
        /\ SubredditsSelectedOnce

\* C34 amended: the selection holds min(numTopicsNeeded, number of different
\* subreddit names, number of themes) different themes, so that a theme is
\* repeated only when the selection is longer than the theme list, and no
\* subreddit twice
C34_DistinctThemesIsMinOverNames ==
    (unit.op = "selectTopics" /\ unit.done) =>
        /\ Cardinality(SelectedThemes)
              = Min2(unit.numTopicsNeeded,
                     Min2(Cardinality(TypedSubredditNames), Len(unit.themes)))
        /\ Cardinality(SelectedThemes) < Len(unit.topics) => Len(unit.themes) < Len(unit.topics)
        /\ SubredditsSelectedOnce

\* one theme, three different subreddits and three topics asked for: the
\* theme is selected three times, once for each subreddit
C34_Witness_OneThemeThreeSubreddits ==
    /\ unit.op = "selectTopics"
    /\ unit.done
    /\ Len(unit.themes) = 1
    /\ Cardinality(TypedSubredditNames) = 3
    /\ unit.numTopicsNeeded = 3
    /\ Len(unit.topics) = 3
    /\ Cardinality(SelectedThemes) = 1

\* the weekly cap of the persona called id in the inputs of the calls
PersonaCap(id) ==
    LET personas == InputFull.personas \o InputOnePostEach.personas
    IN  personas[CHOOSE k \in DOMAIN personas : personas[k].id = id].maxPostsPerWeek

\* C35: after any sequence of runs, every persona has at most
\* maxPostsPerWeek post dates recorded inside each target week, and the
\* remainingPosts of the capacity calculation is never negative
C35_PersonaCapAcrossRuns ==
    /\ pc = "idle" =>
          \A weekStart \in TargetWeeks :
              \A p \in DOMAIN Stored.personaActivity :
                  DatesInWeek(Stored.personaActivity[p].postDates, weekStart)
                     <= PersonaCap(Stored.personaActivity[p].personaId)
    /\ \A k \in DOMAIN run.availablePersonas : run.availablePersonas[k].remainingPosts >= 0

\* a run for the week of Monday Week1 and then a run for the seven days from
\* the Wednesday of that week, 23:00, both with personas of one post a week:
\* alex_sells has written a post in each
C35_Input_OverlappingWeeks ==
    /\ pc = "idle"
    /\ Len(Stored.generatedWeeks) = 2
    /\ Stored.generatedWeeks[1].weekStart = Week1
    /\ Stored.generatedWeeks[2].weekStart = Week1Wed23
    /\ \E p \in DOMAIN Stored.personaActivity :
          /\ Stored.personaActivity[p].personaId = "alex_sells"
          /\ Len(Stored.personaActivity[p].postDates) = 2
          /\ DatesInWeek(Stored.personaActivity[p].postDates, Week1) = 2

\* the ids of the weeks of a history
StoredWeekIds(history) == { history.generatedWeeks[w].id : w \in DOMAIN history.generatedWeeks }

\* the number of post dates of all persona records of a history
TotalPostDates(history) ==
    SumSeq([p \in DOMAIN history.personaActivity |-> Len(history.personaActivity[p].postDates)])

\* a call returns successfully: the store then holds the history the call
\* read at its start with the call's own week and posts added, so that the
\* week and the posts another call saved in between are gone; if no call
\* saved in between, every week stored before is still stored
SaveWritesOwnHistory ==
    (pc = "slots" /\ pc' = "idle" /\ unit' = unit /\ result'.success) =>
        /\ StoredWeekIds(Stored') = StoredWeekIds(run.history) \cup {result'.calendar.id}
        /\ TotalPostDates(Stored') = TotalPostDates(run.history) + Len(result'.calendar.entries)
        /\ unit.overwritten # <<>> =>
              /\ unit.overwritten[1].id \in StoredWeekIds(Stored)
              /\ unit.overwritten[1].id \notin StoredWeekIds(Stored')
              /\ TotalPostDates(Stored') < TotalPostDates(Stored) + Len(result'.calendar.entries)
        /\ unit.overwritten = <<>> =>
              /\ StoredWeekIds(Stored) \subseteq StoredWeekIds(Stored')
              /\ TotalPostDates(Stored') = TotalPostDates(Stored) + Len(result'.calendar.entries)

\* C36: a call reads the history at its start and writes it at its end
\* without any check: when a call returns successfully after another call,
\* begun while it was waiting or waiting itself, has saved, the stored
\* history lacks that call's week and post dates; when calls follow one
\* another, the week of every successful call stays stored
C36_OverlappingRunsLoseFirstSave == [][SaveWritesOwnHistory]_vars

\* two calls have returned successfully, the second to return was waiting
\* while the first saved: one week is stored, the week of the second
C36_Witness_FirstSaveOverwritten ==
    /\ unit.op = "overlap"
    /\ pc = "idle"
    /\ result.success
    /\ unit.overwritten # <<>>
    /\ unit.overwritten[1].id # result.calendar.id
    /\ StoredWeekIds(Stored) = {result.calendar.id}

\* the values of a sequence are pairwise different
NoRepeats(s) == \A a, b \in DOMAIN s : a # b => s[a] # s[b]

\* each collection of a history has one record per key
UniqueKeys(h) ==
    /\ NoRepeats([i \in DOMAIN h.themeUsage |-> h.themeUsage[i].themeId])
    /\ NoRepeats([i \in DOMAIN h.personaActivity |-> h.personaActivity[i].personaId])
    /\ NoRepeats([i \in DOMAIN h.subredditPosts |-> h.subredditPosts[i].subredditName])
    /\ \A i \in DOMAIN h.themeUsage : NoRepeats(h.themeUsage[i].subredditsUsedIn)

\* C37: the stored history has at most one themeUsage record per theme id,
\* one personaActivity record per persona id, one subredditPosts record per
\* subreddit name, and no subreddit twice in a theme's subredditsUsedIn
C37_HistoryKeysUnique == UniqueKeys(Stored)

\* the persona "2024-01-01T09" has posted in a stored week and posts again
\* in the week a later run records: two records are stored for the persona
C37_Input_DateLikePersonaPostsAgain ==
    /\ unit.op = "store"
    /\ unit.step = "recorded"
    /\ Len(unit.history.generatedWeeks) = 1
    /\ unit.history.personaActivity[1].personaId = "2024-01-01T09"
    /\ unit.loaded.personaActivity[1].personaId = DateObject
    /\ unit.loaded.personaActivity[Len(unit.loaded.personaActivity)].personaId = "2024-01-01T09"
    /\ Cardinality({ i \in DOMAIN Stored.personaActivity :
                        Stored.personaActivity[i].personaId = DateObject }) = 2

\* the posts of a calendar lie in its week
InOwnWeek(calendar) ==
    \A k \in DOMAIN calendar.entries :
        /\ calendar.entries[k].scheduledTime >= calendar.weekStart
        /\ calendar.entries[k].scheduledTime < calendar.weekStart + 7 * DayMin

\* the posts of a calendar are in the order of their times
Chronological(calendar) ==
    \A k \in DOMAIN calendar.entries :
        k > 1 => calendar.entries[k - 1].scheduledTime <= calendar.entries[k].scheduledTime

\* C38: every post of a returned calendar is scheduled, after spreading,
\* inside the calendar's week [weekStart, weekStart + 7 days), and the
\* entries are in chronological order
C38_PostsInsideOwnWeekInOrder ==
    Succeeded => InOwnWeek(result.calendar) /\ Chronological(result.calendar)

\* a calendar for the week from Wednesday 23:00 was returned: its first post
\* is scheduled on that Wednesday before 23:00
C38_Input_WeekStartWithTimeOfDay ==
    /\ Succeeded
    /\ request.target = Week1Wed23
    /\ result.calendar.weekStart = Week1Wed23
    /\ result.calendar.entries[1].scheduledTime < Week1Wed23
    /\ result.calendar.entries[1].scheduledTime >= Week1Wed23 - 23 * HourMin

\* a call returns from the loop of generateCalendar: the counts of its
\* result against the slots of the loop and the capacity found at entry
StatsCountSlots ==
    (pc = "slots" /\ pc' = "idle") =>
        LET slots == Min2(Len(run.topics), Len(run.postingDays))
            stats == result'.stats
        IN  /\ stats.postsGenerated + stats.postsRejected = slots
            /\ slots <= EntryCapacity.totalSlots
            /\ result'.success =>
                  /\ stats.postsGenerated = Len(result'.calendar.entries)
                  /\ stats.postsGenerated >= 1

\* C39: in every result past the capacity check postsGenerated +
\* postsRejected is the number of slots processed, min(selected topics,
\* selected posting days), at most capacity.totalSlots; on success
\* postsGenerated is the number of entries of the calendar and at least 1
C39_StatsCountProcessedSlots == [][StatsCountSlots]_vars

\* a call returned a calendar of one post after one slot was rejected
C39_Witness_OneAcceptedOneRejected ==
    /\ Succeeded
    /\ result.stats.postsGenerated = 1
    /\ result.stats.postsRejected = 1
    /\ Len(result.calendar.entries) = 1

====
